---- MODULE Spec2Model ----
(***************************************************************************)
(* Project status / progress state machine and artifact bookkeeping of the *)
(* cleo pipeline: the REST handlers (plan, narration, frames, active-plan  *)
(* selection, project reads) over the relational rows and the object store.*)
(* Every `await` of a handler is one step, so that two requests interleave *)
(* exactly where the runtime can interleave them.                          *)
(***************************************************************************)
EXTENDS Integers, Sequences, FiniteSets, TLC

\* ------------------------------------------------------------------ bounds
\* Stage requests (plan, narration, frames) admitted past the ownership check
\* in one behaviour.
MaxRequests == 3
\* Failures injected into external calls and database writes in one behaviour.
MaxFaults == 1
\* Stage requests admitted in one behaviour of a specification in which
\* requests overlap.
MaxRaceRequests == 2
\* Bytes of the longest buffer of a storage test.
MaxBufferLen == 2

\* ------------------------------------------------------------- input sets
Users == {"u1", "u2"}
NoUser == "anon"
Callers == Users \cup {NoUser}
ProjectIds == {"p1"}
Slots == {"r1", "r2"}
Topics == {"How to make coffee"}
\* A response without project data; data are carried as a tuple.
NoData == <<>>

\* ProjectStatus enum, in pipeline order.
StatusChain ==
  <<"PLANNED", "NARRATED", "ALIGNED", "CUES_READY", "FRAMES_READY", "ASSEMBLED">>

StatusRank(s) == CHOOSE i \in 1..Len(StatusChain) : StatusChain[i] = s

\* Plans the LLM may return.  A beat is [index, words, pf]: words is the length
\* of onScreenText in words (0 = no on-screen text), pf is the optional
\* plannedFrames (<<>> = absent).  generateProjectPlan checks only the types of
\* index and summary, so a plan whose beats repeat an index passes it.
PlanBeats(plan) ==
  CASE plan = "A" -> << [index |-> 1, words |-> 4, pf |-> <<2>>],
                        [index |-> 2, words |-> 20, pf |-> <<3>>] >>
    [] plan = "B" -> << [index |-> 3, words |-> 0, pf |-> <<>>] >>
    [] plan = "D" -> << [index |-> 1, words |-> 4, pf |-> <<1>>],
                        [index |-> 1, words |-> 0, pf |-> <<0>>] >>
    [] OTHER -> << >>

Plans == {"A", "B", "D"}

VARIABLES
  projects,     \* Project rows: id -> [exists, owner, topic, status]
  beats,        \* Beat rows
  styleBibles,  \* StyleBible rows
  frames,       \* Frame rows
  assets,       \* Asset rows
  progress,     \* ProgressEntry rows per project, in creation order
  store,        \* object store: set of [key, body]
  inflight,     \* beat inserts of a rejected Promise.all that are still running
  onDeleteBeat, \* referential action of Frame.beatId (fixed by the schema)
  req,          \* the request each slot is serving
  started,      \* stage requests admitted so far
  faults,       \* failures injected so far
  lastTotal     \* per project, what the last successful materialization saw

vars == <<projects, beats, styleBibles, frames, assets, progress, store,
          inflight, onDeleteBeat, req, started, faults, lastTotal>>

db == <<projects, beats, styleBibles, frames, assets, progress>>

\* --------------------------------------------------------------- requests
NoResp == [code |-> 0, success |-> FALSE, data |-> NoData, total |-> <<>>]

Idle ==
  [kind |-> "idle", user |-> NoUser, proj |-> "p0", inv |-> 0, pc |-> "idle",
   arg |-> <<>>, plan |-> "none", snap |-> <<>>, todo |-> <<>>, pend |-> {},
   res |-> {}, prev |-> <<>>, resp |-> NoResp, ev |-> <<>>]

Free(r) == req[r].pc \in {"idle", "done"}

NewReq(kind, u, p, arg, pc) ==
  [Idle EXCEPT !.kind = kind, !.user = u, !.proj = p, !.arg = arg, !.pc = pc]

\* A request that owns its project is admitted: it gets the next invocation
\* number, which tags the rows and log entries it writes.
Admit(rec, pc) == [rec EXCEPT !.inv = started + 1, !.pc = pc]

Resp(code, success, data, total) ==
  [code |-> code, success |-> success, data |-> data, total |-> total]

\* The handler returns: NextResponse.json(body, {status: code}).
Reply(rec, code, success, data, total) ==
  [rec EXCEPT !.pc = "done", !.resp = Resp(code, success, data, total)]

Ev(rec, e) == [rec EXCEPT !.ev = Append(@, e)]

At(r, pc) == req[r].pc = pc

\* A step may fail (the external service or the database is unreachable)
\* while the fault budget lasts.
MayFail == faults < MaxFaults

\* ------------------------------------------------------ persistence layer
Exists(p) == p \in ProjectIds /\ projects[p].exists

\* db.project.findFirst({where: {id, owner: {clerkId}}})
FindProject(projectId, clerkId) ==
  Exists(projectId) /\ projects[projectId].owner = clerkId

getProjectForUser_AnyUser(projectId, clerkId) == Exists(projectId)

getProjectForUser(projectId, clerkId) == FindProject(projectId, clerkId)

BeatsOf(p) == {b \in beats : b.proj = p}
FramesOf(p) == {f \in frames : f.proj = p}
StylesOf(p) == {s \in styleBibles : s.proj = p}
AssetsOf(p) == {a \in assets : a.proj = p}

\* db.progressEntry.create
trackAssetProgress_Overwrite(projectId, phase, status, inv) ==
  [progress EXCEPT ![projectId] =
     IF @ = <<>> THEN <<[phase |-> phase, status |-> status, inv |-> inv]>>
     ELSE [@ EXCEPT ![Len(@)] = [phase |-> phase, status |-> status, inv |-> inv]]]

trackAssetProgress(projectId, phase, status, inv) ==
  [progress EXCEPT ![projectId] =
     Append(@, [phase |-> phase, status |-> status, inv |-> inv])]

trackPlanningProgress(projectId, phase, status, inv) ==
  trackAssetProgress(projectId, phase, status, inv)

\* lib/db of the narration route (not among the files): same helper.
trackNarrationProgress(projectId, phase, status, inv) ==
  trackAssetProgress(projectId, phase, status, inv)

Init ==
  /\ projects = [p \in ProjectIds |->
                   [exists |-> FALSE, owner |-> NoUser, topic |-> "",
                    status |-> "PLANNED"]]
  /\ beats = {}
  /\ styleBibles = {}
  /\ frames = {}
  /\ assets = {}
  /\ progress = [p \in ProjectIds |-> <<>>]
  /\ store = {}
  /\ inflight = {}
  /\ onDeleteBeat \in {"Cascade", "Restrict"}
  /\ req = [r \in Slots |-> Idle]
  /\ started = 0
  /\ faults = 0
  /\ lastTotal = [p \in ProjectIds |-> <<>>]

\* ------------------------------------------------------------ object store
\* A key is the sequence of its segments between the slashes:
\* <<"projects", "p1", "plan", "ProjectPlan.json">> is
\* projects/p1/plan/ProjectPlan.json.
generateFilePath_Misc(projectId, type, filename) ==
  <<"projects", projectId, "misc", filename>>

generateFilePath(projectId, type, filename) ==
  <<"projects", projectId,
    CASE type = "DOC" -> "docs"
      [] type = "AUDIO" -> "audio"
      [] type = "ALIGN" -> "align"
      [] type = "FRAME" -> "frames"
      [] type = "CUE" -> "cues"
      [] type = "VIDEO" -> "video"
      [] OTHER -> "misc",
    filename>>

generatePlanFilePath(projectId, filename) ==
  <<"projects", projectId, "plan", filename>>

PlanKey(projectId, filename) == generatePlanFilePath(projectId, filename)
AudioKey(projectId, dialogueIndex) == generateFilePath(projectId, "AUDIO", dialogueIndex)

\* PutObject: the object under the key is replaced.
PutObject_Dropped(key, body) == store

PutObject(key, body) ==
  {o \in store : o.key # key} \cup {[key |-> key, body |-> body]}

\* Bytes of the audio the TTS service returns for a text (mp3_44100_128 is
\* 16000 bytes per second; the service speaks a word in 0.4 s).
AudioBytes(words) == 6400 * words

\* Byte length of a stored body: a serialized plan grows with its beats.
ByteLength(body) ==
  IF body.file = "ProjectPlan.json" THEN 200 + 80 * Len(PlanBeats(body.content))
  ELSE IF body.file = "StyleBible.min.json" THEN 120
  ELSE AudioBytes(body.content)

\* ------------------------------------------------------- POST /api/projects
\* requireAuth(), request.json() and createProjectSchema.parse: the topic is a
\* string of 1..500 characters ("" stands for a rejected body).
StartCreate(r, u, t) ==
  /\ Free(r)
  /\ req' = [req EXCEPT ![r] =
       IF u = NoUser
       THEN Reply(NewReq("create", u, "p0", <<t>>, "done"), 401, FALSE, NoData, <<>>)
       ELSE IF t = ""
       THEN Reply(NewReq("create", u, "p0", <<t>>, "done"), 400, FALSE, NoData, <<>>)
       ELSE NewReq("create", u, "p0", <<t>>, "c_create")]
  \* the id of the new row is fresh: one is left for every create under way
  /\ (u # NoUser /\ t # "") =>
        /\ \E id \in ProjectIds : ~projects[id].exists
        /\ \A q \in Slots : req[q].pc # "c_create"
  /\ UNCHANGED <<db, store, inflight, onDeleteBeat, started, faults, lastTotal>>

\* createProject: db.project.create({ownerId, topic, status: 'PLANNED'})
createProject_FirstTopic(id, clerkId, topic) ==
  [projects EXCEPT ![id] =
     [exists |-> TRUE, owner |-> clerkId, topic |-> "How to make coffee",
      status |-> "PLANNED"]]

createProject(id, clerkId, topic) ==
  [projects EXCEPT ![id] =
     [exists |-> TRUE, owner |-> clerkId, topic |-> topic, status |-> "PLANNED"]]

CreateProjectRow(r) ==
  /\ At(r, "c_create")
  /\ \E id \in ProjectIds :
       /\ ~projects[id].exists
       /\ projects' = createProject(id, req[r].user, req[r].arg[1])
       /\ req' = [req EXCEPT ![r] =
            Reply([@ EXCEPT !.proj = id], 200, TRUE, <<id>>, <<>>)]
  /\ UNCHANGED <<beats, styleBibles, frames, assets, progress, store, inflight,
                 onDeleteBeat, started, faults, lastTotal>>

\* ------------------------------------------------------------ POST /api/plan
\* auth(), request.json() and PlanRequestSchema.safeParse (ok: the body passes)
StartPlan(r, u, p, ok) ==
  /\ Free(r) /\ started < MaxRequests
  /\ req' = [req EXCEPT ![r] =
       IF u = NoUser
       THEN Reply(NewReq("plan", u, p, <<ok>>, "done"), 401, FALSE, NoData, <<>>)
       ELSE IF ~ok
       THEN Reply(NewReq("plan", u, p, <<ok>>, "done"), 400, FALSE, NoData, <<>>)
       ELSE NewReq("plan", u, p, <<ok>>, "p_own")]
  /\ UNCHANGED <<db, store, inflight, onDeleteBeat, started, faults, lastTotal>>

\* const project = await getProjectForUser(projectId, userId)
PlanOwnership(r) ==
  /\ At(r, "p_own")
  /\ IF getProjectForUser(req[r].proj, req[r].user)
     THEN /\ started < MaxRequests
          /\ started' = started + 1
          /\ req' = [req EXCEPT ![r] = Admit(@, "p_start")]
     ELSE /\ req' = [req EXCEPT ![r] = Reply(@, 404, FALSE, NoData, <<>>)]
          /\ UNCHANGED started
  /\ UNCHANGED <<db, store, inflight, onDeleteBeat, faults, lastTotal>>

\* await trackPlanningProgress(...): the entry is written and the handler goes
\* on to `next`, or the write throws and the outer catch answers 500.
PlanTrack(r, phase, status, next) ==
  /\ UNCHANGED <<projects, beats, styleBibles, frames, assets, store, inflight,
                 onDeleteBeat, started, lastTotal>>
  /\ \/ /\ progress' = trackPlanningProgress(req[r].proj, phase, status, req[r].inv)
        /\ req' = [req EXCEPT ![r] =
             Ev([@ EXCEPT !.pc = next], <<"progress", phase, status>>)]
        /\ UNCHANGED faults
     \/ /\ MayFail
        /\ faults' = faults + 1
        /\ req' = [req EXCEPT ![r] =
             Reply(Ev(@, <<"throw", phase, status>>), 500, FALSE, NoData, <<>>)]
        /\ UNCHANGED progress

\* The FAILED entry of a phase, then the error response.
PlanTrackFailed(r, phase) ==
  /\ UNCHANGED <<projects, beats, styleBibles, frames, assets, store, inflight,
                 onDeleteBeat, started, lastTotal>>
  /\ \/ /\ progress' = trackPlanningProgress(req[r].proj, phase, "FAILED", req[r].inv)
        /\ req' = [req EXCEPT ![r] =
             Reply(Ev(@, <<"progress", phase, "FAILED">>), 500, FALSE, NoData, <<>>)]
        /\ UNCHANGED faults
     \/ /\ MayFail
        /\ faults' = faults + 1
        /\ req' = [req EXCEPT ![r] =
             Reply(Ev(@, <<"throw", phase, "FAILED">>), 500, FALSE, NoData, <<>>)]
        /\ UNCHANGED progress

PlanTrackStart(r) ==
  At(r, "p_start") /\ PlanTrack(r, "PLANNING_START", "IN_PROGRESS", "p_llm_ip")

PlanTrackLlm(r) ==
  At(r, "p_llm_ip") /\ PlanTrack(r, "LLM_GENERATION", "IN_PROGRESS", "p_llm")

\* planResponse = await generateProjectPlan(topic)
PlanCallLlm(r, plans) ==
  /\ At(r, "p_llm")
  /\ UNCHANGED <<db, store, inflight, onDeleteBeat, started, lastTotal>>
  /\ \/ /\ \E plan \in plans :
             req' = [req EXCEPT ![r] =
               Ev([@ EXCEPT !.pc = "p_llm_ok", !.plan = plan], <<"llm", "ok">>)]
        /\ UNCHANGED faults
     \/ /\ MayFail
        /\ faults' = faults + 1
        /\ req' = [req EXCEPT ![r] =
             Ev([@ EXCEPT !.pc = "p_llm_failed"], <<"llm_failed", "llm">>)]

PlanLlmFailed(r) ==
  At(r, "p_llm_failed") /\ PlanTrackFailed(r, "LLM_GENERATION")

PlanLlmCompleted(r) ==
  At(r, "p_llm_ok") /\ PlanTrack(r, "LLM_GENERATION", "COMPLETED", "p_up_ip")

PlanTrackUpload(r) ==
  At(r, "p_up_ip") /\ PlanTrack(r, "STORAGE_UPLOAD", "IN_PROGRESS", "p_up1")

\* processPlanForStorage: uploadPlanFile(ProjectPlan.json), then
\* uploadPlanFile(StyleBible.min.json); either may throw.
PlanUpload(r, at, filename, next) ==
  /\ At(r, at)
  /\ UNCHANGED <<db, inflight, onDeleteBeat, started, lastTotal>>
  /\ \/ /\ store' = PutObject(PlanKey(req[r].proj, filename),
                      [file |-> filename, content |-> req[r].plan, inv |-> req[r].inv])
        /\ req' = [req EXCEPT ![r] =
             Ev([@ EXCEPT !.pc = next], <<"upload", filename>>)]
        /\ UNCHANGED faults
     \/ /\ MayFail
        /\ faults' = faults + 1
        /\ req' = [req EXCEPT ![r] =
             Ev([@ EXCEPT !.pc = "p_up_failed"], <<"upload_failed", filename>>)]
        /\ UNCHANGED store

PlanUploadPlan(r) == PlanUpload(r, "p_up1", "ProjectPlan.json", "p_up2")

PlanUploadStyle(r) == PlanUpload(r, "p_up2", "StyleBible.min.json", "p_up_ok")

PlanUploadFailed(r) ==
  At(r, "p_up_failed") /\ PlanTrackFailed(r, "STORAGE_UPLOAD")

PlanUploadCompleted(r) ==
  At(r, "p_up_ok") /\ PlanTrack(r, "STORAGE_UPLOAD", "COMPLETED", "p_db_ip")

PlanTrackDb(r) ==
  At(r, "p_db_ip") /\ PlanTrack(r, "DATABASE_SAVE", "IN_PROGRESS", "p_beats_del")

\* --- createProjectBeats(projectId, planResponse.beats, userId)
BeatRow(projectId, inv, plan, pos) ==
  [id |-> <<inv, pos>>, proj |-> projectId, index |-> PlanBeats(plan)[pos].index,
   words |-> PlanBeats(plan)[pos].words, pf |-> PlanBeats(plan)[pos].pf]

\* Beat has the compound unique key projectId_index (the seed upserts on it).
BeatIndexFree_Unchecked(projectId, index) == TRUE

BeatIndexFree(projectId, index) ==
  ~\E b \in beats : b.proj = projectId /\ b.index = index

\* Frames that reference the beats of the project.
FramesOnBeats(projectId) ==
  {f \in frames : \E b \in BeatsOf(projectId) : f.beatId = b.id}

\* db.beat.deleteMany({where: {projectId}})
deleteManyBeats_None(projectId) == beats

deleteManyBeats(projectId) == beats \ BeatsOf(projectId)

\* findFirst(where) and db.beat.deleteMany({where: {projectId}}).  The owner of
\* a project never changes, so the two awaits are one step.  Frames that
\* reference a deleted beat go with it (Cascade) or make the delete throw
\* (Restrict), as the schema says.
PlanDeleteBeats(r) ==
  /\ At(r, "p_beats_del")
  /\ UNCHANGED <<projects, styleBibles, assets, progress, store, inflight,
                 onDeleteBeat, started, faults, lastTotal>>
  /\ LET p == req[r].proj IN
     IF ~FindProject(p, req[r].user)
        \/ (onDeleteBeat = "Restrict" /\ FramesOnBeats(p) # {})
     THEN /\ req' = [req EXCEPT ![r] =
               Ev([@ EXCEPT !.pc = "p_db_failed"], <<"throw", "beats">>)]
          /\ UNCHANGED <<beats, frames>>
     ELSE /\ beats' = deleteManyBeats(p)
          /\ frames' = frames \ FramesOnBeats(p)
          /\ req' = [req EXCEPT ![r] =
               Ev([@ EXCEPT !.pc = IF PlanBeats(req[r].plan) = <<>>
                                    THEN "p_style_del" ELSE "p_beats_ins",
                            !.pend = 1..Len(PlanBeats(req[r].plan))],
                  <<"delete", "beats">>)]

\* Promise.all(beats.map(db.beat.create)): the inserts run together and land
\* in any order.  The first one that throws rejects the Promise.all; the
\* inserts still running go on in the background.
PlanInsertBeat(r) ==
  /\ At(r, "p_beats_ins") /\ req[r].pend # {}
  /\ UNCHANGED <<projects, styleBibles, frames, assets, progress, store,
                 onDeleteBeat, started, lastTotal>>
  /\ \E pos \in req[r].pend :
       LET row == BeatRow(req[r].proj, req[r].inv, req[r].plan, pos) IN
       \/ /\ BeatIndexFree(row.proj, row.index)
          /\ beats' = beats \cup {row}
          /\ req' = [req EXCEPT ![r] =
               Ev([@ EXCEPT !.pend = @ \ {pos},
                            !.pc = IF req[r].pend = {pos}
                                   THEN "p_style_del" ELSE "p_beats_ins"],
                  <<"row", "beat">>)]
          /\ UNCHANGED <<inflight, faults>>
       \/ /\ \/ ~BeatIndexFree(row.proj, row.index) /\ UNCHANGED faults
             \/ MayFail /\ faults' = faults + 1
          /\ inflight' = inflight \cup
               {BeatRow(req[r].proj, req[r].inv, req[r].plan, q) :
                  q \in req[r].pend \ {pos}}
          /\ req' = [req EXCEPT ![r] =
               Ev([@ EXCEPT !.pc = "p_db_failed", !.pend = {}], <<"throw", "beat">>)]
          /\ UNCHANGED beats

\* An insert left running by a rejected Promise.all lands or fails.
BackgroundBeatInsert ==
  /\ \E row \in inflight :
       /\ inflight' = inflight \ {row}
       /\ beats' = IF BeatIndexFree(row.proj, row.index)
                   THEN beats \cup {row} ELSE beats
  /\ UNCHANGED <<projects, styleBibles, frames, assets, progress, store,
                 onDeleteBeat, req, started, faults, lastTotal>>

\* --- createProjectStyleBible(projectId, planResponse.styleBibleMin, userId)
\* findFirst(where) and db.styleBible.deleteMany({where: {projectId}})
PlanDeleteStyle(r) ==
  /\ At(r, "p_style_del")
  /\ UNCHANGED <<projects, beats, frames, assets, progress, store, inflight,
                 onDeleteBeat, started, faults, lastTotal>>
  /\ IF ~FindProject(req[r].proj, req[r].user)
     THEN /\ req' = [req EXCEPT ![r] =
               Ev([@ EXCEPT !.pc = "p_db_failed"], <<"throw", "style">>)]
          /\ UNCHANGED styleBibles
     ELSE /\ styleBibles' = styleBibles \ StylesOf(req[r].proj)
          /\ req' = [req EXCEPT ![r] =
               Ev([@ EXCEPT !.pc = "p_style_ins"], <<"delete", "style">>)]

\* db.styleBible.create({data: {projectId, json}})
PlanInsertStyle(r) ==
  /\ At(r, "p_style_ins")
  /\ UNCHANGED <<projects, beats, frames, assets, progress, store, inflight,
                 onDeleteBeat, started, lastTotal>>
  /\ \/ /\ styleBibles' = styleBibles \cup
             {[id |-> req[r].inv, proj |-> req[r].proj, json |-> req[r].plan]}
        /\ req' = [req EXCEPT ![r] =
             Ev([@ EXCEPT !.pc = "p_asset1"], <<"row", "style">>)]
        /\ UNCHANGED faults
     \/ /\ MayFail
        /\ faults' = faults + 1
        /\ req' = [req EXCEPT ![r] =
             Ev([@ EXCEPT !.pc = "p_db_failed"], <<"throw", "style">>)]
        /\ UNCHANGED styleBibles

\* --- createAsset: db.asset.create.  Rows are numbered in creation order
\* (createdAt); meta is kept as its fields kind, active and dialogueIndex.
AssetRow(projectId, type, label, r2Key, bytes, kind, dlg) ==
  [id |-> Cardinality(assets) + 1, proj |-> projectId, type |-> type,
   label |-> label, key |-> r2Key, bytes |-> bytes, kind |-> kind,
   active |-> FALSE, dlg |-> dlg]

createAsset(projectId, type, label, r2Key, bytes, kind, dlg) ==
  assets \cup {AssetRow(projectId, type, label, r2Key, bytes, kind, dlg)}

\* Record the plan files as DOC assets.  A failure is caught and logged
\* (console.warn): the second asset is skipped and the handler goes on.
PlanAsset(r, at, filename, kind, next) ==
  /\ At(r, at)
  /\ UNCHANGED <<projects, beats, styleBibles, frames, progress, store, inflight,
                 onDeleteBeat, started, lastTotal>>
  /\ \/ /\ assets' = createAsset(req[r].proj, "DOC", filename,
                       PlanKey(req[r].proj, filename),
                       ByteLength([file |-> filename, content |-> req[r].plan]),
                       kind, <<>>)
        /\ req' = [req EXCEPT ![r] =
             Ev([@ EXCEPT !.pc = next], <<"row", "asset">>)]
        /\ UNCHANGED faults
     \/ /\ MayFail
        /\ faults' = faults + 1
        /\ req' = [req EXCEPT ![r] =
             Ev([@ EXCEPT !.pc = "p_status"], <<"swallowed", "asset">>)]
        /\ UNCHANGED assets

PlanAssetPlan(r) == PlanAsset(r, "p_asset1", "ProjectPlan.json", "plan", "p_asset2")

PlanAssetStyle_SkipStatus(r) ==
  PlanAsset(r, "p_asset2", "StyleBible.min.json", "style_bible_min", "p_db_ok")

PlanAssetStyle(r) ==
  PlanAsset(r, "p_asset2", "StyleBible.min.json", "style_bible_min", "p_status")

\* --- updateProjectStatusToPlanned: db.project.update({where, data: {status}})
updateProjectStatusToPlanned(projectId) ==
  [projects EXCEPT ![projectId].status = "PLANNED"]

PlanStatus(r) ==
  /\ At(r, "p_status")
  /\ UNCHANGED <<beats, styleBibles, frames, assets, progress, store, inflight,
                 onDeleteBeat, started, lastTotal>>
  /\ \/ /\ FindProject(req[r].proj, req[r].user)
        /\ projects' = updateProjectStatusToPlanned(req[r].proj)
        /\ req' = [req EXCEPT ![r] =
             Ev([@ EXCEPT !.pc = "p_db_ok"], <<"status", "PLANNED">>)]
        /\ UNCHANGED faults
     \/ /\ \/ ~FindProject(req[r].proj, req[r].user) /\ UNCHANGED faults
           \/ MayFail /\ faults' = faults + 1
        /\ req' = [req EXCEPT ![r] =
             Ev([@ EXCEPT !.pc = "p_db_failed"], <<"throw", "status">>)]
        /\ UNCHANGED projects

PlanDbFailed_Rollback(r) ==
  /\ At(r, "p_db_failed")
  /\ store' = {o \in store : o.key[2] # req[r].proj}
  /\ progress' = trackPlanningProgress(req[r].proj, "DATABASE_SAVE", "FAILED",
                                        req[r].inv)
  /\ req' = [req EXCEPT ![r] =
       Reply(Ev(@, <<"progress", "DATABASE_SAVE", "FAILED">>), 500, FALSE,
             NoData, <<>>)]
  /\ UNCHANGED <<projects, beats, styleBibles, frames, assets, inflight,
                 onDeleteBeat, started, faults, lastTotal>>

PlanDbFailed(r) ==
  At(r, "p_db_failed") /\ PlanTrackFailed(r, "DATABASE_SAVE")

PlanDbCompleted(r) ==
  At(r, "p_db_ok") /\ PlanTrack(r, "DATABASE_SAVE", "COMPLETED", "p_complete")

\* The last entry, then the success response.
PlanComplete(r) ==
  /\ At(r, "p_complete")
  /\ UNCHANGED <<projects, beats, styleBibles, frames, assets, store, inflight,
                 onDeleteBeat, started, lastTotal>>
  /\ \/ /\ progress' = trackPlanningProgress(req[r].proj, "PLANNING_COMPLETE",
                                              "COMPLETED", req[r].inv)
        /\ req' = [req EXCEPT ![r] =
             Reply(Ev(@, <<"progress", "PLANNING_COMPLETE", "COMPLETED">>),
                   200, TRUE, <<@.proj>>, <<>>)]
        /\ UNCHANGED faults
     \/ /\ MayFail
        /\ faults' = faults + 1
        /\ req' = [req EXCEPT ![r] =
             Reply(Ev(@, <<"throw", "PLANNING_COMPLETE", "COMPLETED">>),
                   500, FALSE, NoData, <<>>)]
        /\ UNCHANGED progress

PlanStep(r, plans) ==
  \/ PlanOwnership(r) \/ PlanTrackStart(r) \/ PlanTrackLlm(r) \/ PlanCallLlm(r, plans)
  \/ PlanLlmFailed(r) \/ PlanLlmCompleted(r) \/ PlanTrackUpload(r)
  \/ PlanUploadPlan(r) \/ PlanUploadStyle(r) \/ PlanUploadFailed(r)
  \/ PlanUploadCompleted(r) \/ PlanTrackDb(r) \/ PlanDeleteBeats(r)
  \/ PlanInsertBeat(r) \/ PlanDeleteStyle(r) \/ PlanInsertStyle(r)
  \/ PlanAssetPlan(r) \/ PlanAssetStyle(r) \/ PlanStatus(r) \/ PlanDbFailed(r)
  \/ PlanDbCompleted(r) \/ PlanComplete(r)

\* ------------------------------------------------------- POST /api/narration
\* A request body is "bad" (fails the schema), "batch" (projectId only) or
\* "single" (with dialogueIndex and text; the text is kept as its word count).
NarrationBodies ==
  { <<"bad", 0, 0>>, <<"batch", 0, 0>>, <<"single", 1, 4>>, <<"single", 9, 17>> }

IsSingle(rec) == rec.arg[1] = "single"

\* project.beats.flatMap(beat => beat.onScreenText ? [{index, text}] : []) over
\* the beats ordered by index.
RECURSIVE BeatsInOrder(_)
BeatsInOrder(S) ==
  IF S = {} THEN <<>>
  ELSE LET b == CHOOSE x \in S : \A y \in S : x.index <= y.index
       IN <<b>> \o BeatsInOrder(S \ {b})

Dialogues(beatSet) ==
  SelectSeq([i \in 1..Len(BeatsInOrder(beatSet)) |->
               [index |-> BeatsInOrder(beatSet)[i].index,
                words |-> BeatsInOrder(beatSet)[i].words]],
            LAMBDA d : d.words > 0)

\* auth(), request.json() and the zod schema of the mode
StartNarration(r, u, p, body) ==
  /\ Free(r) /\ started < MaxRequests
  /\ req' = [req EXCEPT ![r] =
       IF u = NoUser
       THEN Reply(NewReq("narration", u, p, body, "done"), 401, FALSE, NoData, <<>>)
       ELSE IF body[1] = "bad"
       THEN Reply(NewReq("narration", u, p, body, "done"), 400, FALSE, NoData, <<>>)
       ELSE NewReq("narration", u, p, body, "n_own")]
  /\ UNCHANGED <<db, store, inflight, onDeleteBeat, started, faults, lastTotal>>

\* project.status !== 'PLANNED'
StatusNotPlanned_Never(projectId) == FALSE

StatusNotPlanned(projectId) == projects[projectId].status # "PLANNED"

\* getProjectForUser, then the status and beats preconditions on the row read.
NarrOwnership(r) ==
  /\ At(r, "n_own")
  /\ LET p == req[r].proj IN
     IF ~getProjectForUser(p, req[r].user)
     THEN /\ req' = [req EXCEPT ![r] = Reply(@, 404, FALSE, NoData, <<>>)]
          /\ UNCHANGED started
     ELSE IF StatusNotPlanned(p) \/ BeatsOf(p) = {}
     THEN /\ req' = [req EXCEPT ![r] = Reply(@, 400, FALSE, NoData, <<>>)]
          /\ UNCHANGED started
     ELSE /\ started < MaxRequests
          /\ started' = started + 1
          /\ req' = [req EXCEPT ![r] =
               [Admit(@, "n_start") EXCEPT !.snap = Dialogues(BeatsOf(p))]]
  /\ UNCHANGED <<db, store, inflight, onDeleteBeat, faults, lastTotal>>

\* await trackNarrationProgress(...): as in the plan handler, a throw of the
\* write goes to the outer catch.
NarrTrack(r, phase, status, nextRec) ==
  /\ UNCHANGED <<projects, beats, styleBibles, frames, assets, store, inflight,
                 onDeleteBeat, started, lastTotal>>
  /\ \/ /\ progress' = trackNarrationProgress(req[r].proj, phase, status, req[r].inv)
        /\ req' = [req EXCEPT ![r] = Ev(nextRec, <<"progress", phase, status>>)]
        /\ UNCHANGED faults
     \/ /\ MayFail
        /\ faults' = faults + 1
        /\ req' = [req EXCEPT ![r] =
             Reply(Ev(@, <<"throw", phase, status>>), 500, FALSE, NoData, <<>>)]
        /\ UNCHANGED progress

\* NARRATION_START; a batch request without dialogues is answered 400 here, a
\* single request narrates the text of its body.
NarrTrackStart(r) ==
  /\ At(r, "n_start")
  /\ NarrTrack(r, "NARRATION_START", "IN_PROGRESS",
       IF IsSingle(req[r])
       THEN [req[r] EXCEPT !.pc = "n_gen_ip",
               !.todo = <<[index |-> req[r].arg[2], words |-> req[r].arg[3]]>>]
       ELSE IF req[r].snap = <<>>
       THEN Reply(req[r], 400, FALSE, NoData, <<>>)
       ELSE [req[r] EXCEPT !.pc = "n_gen_ip", !.todo = req[r].snap])

GenPhase(rec) ==
  IF IsSingle(rec) THEN "AUDIO_GENERATION" ELSE "BATCH_AUDIO_GENERATION"

NarrTrackGen(r) ==
  /\ At(r, "n_gen_ip")
  /\ NarrTrack(r, GenPhase(req[r]), "IN_PROGRESS", [req[r] EXCEPT !.pc = "n_tts"])

\* generateAudio failed for the dialogue at the head of the list.  A single
\* request goes to its catch block; generateBatchAudio catches the error, puts
\* {key: ''} in the results and goes on with the next dialogue.
AudioFailed(rec, what) ==
  IF IsSingle(rec)
  THEN Ev([rec EXCEPT !.pc = "n_gen_failed"], <<what, Head(rec.todo).index>>)
  ELSE Ev([rec EXCEPT !.todo = Tail(@),
                      !.pc = IF Len(rec.todo) = 1 THEN "n_gen_ok" ELSE "n_tts"],
          <<what, Head(rec.todo).index>>)

\* generateAudio, first half: elevenlabs.textToSpeech.convert
NarrTts(r) ==
  /\ At(r, "n_tts")
  /\ UNCHANGED <<db, store, inflight, onDeleteBeat, started, lastTotal>>
  /\ \/ /\ req' = [req EXCEPT ![r] =
             Ev([@ EXCEPT !.pc = "n_up"], <<"tts", Head(@.todo).index>>)]
        /\ UNCHANGED faults
     \/ /\ MayFail
        /\ faults' = faults + 1
        /\ req' = [req EXCEPT ![r] = AudioFailed(@, "tts_failed")]

\* The estimated duration in tenths of a second:
\* Math.max(5, Math.min(30, text.split(' ').length * 0.3))
EstimatedDuration10(words) ==
  IF 3 * words < 50 THEN 50 ELSE IF 3 * words > 300 THEN 300 ELSE 3 * words

\* generateAudio, second half: uploadFile(projectId, AUDIO, beat_NNN.mp3, ...)
NarrUpload(r) ==
  /\ At(r, "n_up")
  /\ UNCHANGED <<db, inflight, onDeleteBeat, started, lastTotal>>
  /\ LET d == Head(req[r].todo) IN
     \/ /\ store' = PutObject(AudioKey(req[r].proj, d.index),
                      [file |-> "beat.mp3", content |-> d.words, inv |-> req[r].inv])
        /\ req' = [req EXCEPT ![r] =
             Ev([@ EXCEPT !.todo = Tail(@),
                          !.res = @ \cup {d},
                          !.pc = IF Len(req[r].todo) = 1 THEN "n_gen_ok" ELSE "n_tts"],
                <<"upload", d.index>>)]
        /\ UNCHANGED faults
     \/ /\ MayFail
        /\ faults' = faults + 1
        /\ req' = [req EXCEPT ![r] = AudioFailed(@, "upload_failed")]
        /\ UNCHANGED store

\* The catch block of the single request: FAILED entry, 500.
NarrGenFailed(r) ==
  /\ At(r, "n_gen_failed")
  /\ NarrTrack(r, GenPhase(req[r]), "FAILED",
               Reply(req[r], 500, FALSE, NoData, <<>>))

NarrGenCompleted(r) ==
  /\ At(r, "n_gen_ok")
  /\ NarrTrack(r, GenPhase(req[r]), "COMPLETED",
       [req[r] EXCEPT !.pend = req[r].res,
                      !.pc = IF req[r].res = {} THEN "n_status" ELSE "n_assets"])

\* createAsset(projectId, AUDIO, filename, key, BigInt(duration || 10) * 1000n,
\* undefined, {kind: 'narration', dialogueIndex, ...}) for every result that has
\* a key.  BigInt throws a RangeError on a number that is not an integer; that
\* and a failed insert are caught and logged, and the handler goes on.
NarrAsset(r) ==
  /\ At(r, "n_assets")
  /\ UNCHANGED <<projects, beats, styleBibles, frames, progress, store, inflight,
                 onDeleteBeat, started, lastTotal>>
  /\ \E d \in req[r].pend :
       LET dur == EstimatedDuration10(d.words)
           nextPc == IF req[r].pend = {d} THEN "n_status" ELSE "n_assets"
       IN
       \/ /\ dur % 10 = 0
          /\ assets' = createAsset(req[r].proj, "AUDIO", <<"beat", d.index>>,
                         AudioKey(req[r].proj, d.index), (dur \div 10) * 1000,
                         "narration", <<d.index>>)
          /\ req' = [req EXCEPT ![r] =
               Ev([@ EXCEPT !.pend = @ \ {d}, !.pc = nextPc], <<"row", "asset">>)]
          /\ UNCHANGED faults
       \/ /\ \/ dur % 10 # 0 /\ UNCHANGED faults
             \/ MayFail /\ faults' = faults + 1
          /\ req' = [req EXCEPT ![r] =
               Ev([@ EXCEPT !.pend = @ \ {d}, !.pc = nextPc], <<"swallowed", "asset">>)]
          /\ UNCHANGED assets

\* lib/db of the narration route (not among the files): the counterpart of
\* updateProjectStatusToPlanned.
updateProjectStatusToNarrated(projectId) ==
  [projects EXCEPT ![projectId].status = "NARRATED"]

\* A throw of the update goes to the outer catch: 500, no FAILED entry.
NarrStatus(r) ==
  /\ At(r, "n_status")
  /\ UNCHANGED <<beats, styleBibles, frames, assets, progress, store, inflight,
                 onDeleteBeat, started, lastTotal>>
  /\ \/ /\ FindProject(req[r].proj, req[r].user)
        /\ projects' = updateProjectStatusToNarrated(req[r].proj)
        /\ req' = [req EXCEPT ![r] =
             Ev([@ EXCEPT !.pc = "n_complete"], <<"status", "NARRATED">>)]
        /\ UNCHANGED faults
     \/ /\ MayFail
        /\ faults' = faults + 1
        /\ req' = [req EXCEPT ![r] =
             Reply(Ev(@, <<"throw", "status">>), 500, FALSE, NoData, <<>>)]
        /\ UNCHANGED projects

NarrComplete(r) ==
  /\ At(r, "n_complete")
  /\ NarrTrack(r, "NARRATION_COMPLETE", "COMPLETED",
               Reply(req[r], 200, TRUE, <<req[r].proj>>, <<>>))

NarrStep(r) ==
  \/ NarrOwnership(r) \/ NarrTrackStart(r) \/ NarrTrackGen(r) \/ NarrTts(r)
  \/ NarrUpload(r) \/ NarrGenFailed(r) \/ NarrGenCompleted(r) \/ NarrAsset(r)
  \/ NarrStatus(r) \/ NarrComplete(r)


\* ------------------------------------------- POST /api/projects/{id}/frames
StartFrames(r, u, p) ==
  /\ Free(r) /\ started < MaxRequests
  /\ req' = [req EXCEPT ![r] =
       IF u = NoUser
       THEN Reply(NewReq("frames", u, p, <<>>, "done"), 401, FALSE, NoData, <<>>)
       ELSE NewReq("frames", u, p, <<>>, "f_find")]
  /\ UNCHANGED <<db, store, inflight, onDeleteBeat, started, faults, lastTotal>>

\* Any throw of materializeFramesFromBeats or getProjectWithPlanningData is
\* caught by the handler: 500 'Failed to create frames'.
FramesError(rec, why) == Reply(Ev(rec, <<"throw", why>>), 500, FALSE, NoData, <<>>)

\* The frames to create, in the order of the two loops:
\* for (beat of project.beats) for (i = 1; i <= (beat.plannedFrames || 0); i++)
PlannedCount(b) == IF b.pf = <<>> THEN 0 ELSE b.pf[1]

FramesOfBeat_FromZero(b) ==
  [i \in 1..PlannedCount(b) |-> [beatId |-> b.id, index |-> i - 1]]

FramesOfBeat(b) == [i \in 1..PlannedCount(b) |-> [beatId |-> b.id, index |-> i]]

RECURSIVE FramesToCreate(_)
FramesToCreate(beatSeq) ==
  IF beatSeq = <<>> THEN <<>>
  ELSE FramesOfBeat(Head(beatSeq)) \o FramesToCreate(Tail(beatSeq))

\* db.project.findFirst({where, include: {beats: true}}); no row: throw.
FramesFind(r) ==
  /\ At(r, "f_find")
  /\ LET p == req[r].proj IN
     IF ~FindProject(p, req[r].user)
     THEN /\ req' = [req EXCEPT ![r] = FramesError(@, "not found")]
          /\ UNCHANGED started
     ELSE /\ started < MaxRequests
          /\ started' = started + 1
          /\ req' = [req EXCEPT ![r] =
               [Admit(@, "f_del") EXCEPT
                  !.snap = BeatsInOrder(BeatsOf(p)),
                  !.todo = FramesToCreate(BeatsInOrder(BeatsOf(p))),
                  !.prev = lastTotal[p]]]
  /\ UNCHANGED <<db, store, inflight, onDeleteBeat, faults, lastTotal>>

\* db.frame.deleteMany({where: {projectId}})
deleteManyFrames_None(projectId) == frames

deleteManyFrames(projectId) == frames \ FramesOf(projectId)

\* await db.frame.deleteMany({where: {projectId}})
FramesDelete(r) ==
  /\ At(r, "f_del")
  /\ UNCHANGED <<projects, beats, styleBibles, assets, progress, store, inflight,
                 onDeleteBeat, started, lastTotal>>
  /\ \/ /\ frames' = deleteManyFrames(req[r].proj)
        /\ req' = [req EXCEPT ![r] =
             Ev([@ EXCEPT !.pc = IF req[r].todo = <<>> THEN "f_count" ELSE "f_ins"],
                <<"delete", "frames">>)]
        /\ UNCHANGED faults
     \/ /\ MayFail
        /\ faults' = faults + 1
        /\ req' = [req EXCEPT ![r] = FramesError(Ev(@, <<"fault">>), "delete")]
        /\ UNCHANGED frames

FrameRow(projectId, inv, beatId, index) ==
  [id |-> <<inv, beatId, index>>, proj |-> projectId, beatId |-> beatId,
   index |-> index, status |-> "NEW"]

\* Frame.beatId references Beat.id.
BeatPresent(beatId) == \E b \in beats : b.id = beatId

\* The data model's unique key of Frame: (project id, beat id, index).
FrameKeyFree_Unchecked(projectId, beatId, index) == TRUE

FrameKeyFree(projectId, beatId, index) ==
  ~\E f \in frames : f.proj = projectId /\ f.beatId = beatId /\ f.index = index

\* await db.frame.create({data: {projectId, beatId, index: i, status: 'NEW'}})
FramesInsert(r) ==
  /\ At(r, "f_ins")
  /\ UNCHANGED <<projects, beats, styleBibles, assets, progress, store, inflight,
                 onDeleteBeat, started, lastTotal>>
  /\ LET f == Head(req[r].todo) IN
     \/ /\ BeatPresent(f.beatId)
        /\ FrameKeyFree(req[r].proj, f.beatId, f.index)
        /\ frames' = frames \cup {FrameRow(req[r].proj, req[r].inv, f.beatId, f.index)}
        /\ req' = [req EXCEPT ![r] =
             Ev([@ EXCEPT !.todo = Tail(@),
                          !.pc = IF Len(req[r].todo) = 1 THEN "f_count" ELSE "f_ins"],
                <<"row", "frame">>)]
        /\ UNCHANGED faults
     \/ /\ ~BeatPresent(f.beatId) \/ ~FrameKeyFree(req[r].proj, f.beatId, f.index)
        /\ req' = [req EXCEPT ![r] = FramesError(@, "constraint")]
        /\ UNCHANGED <<frames, faults>>
     \/ /\ MayFail
        /\ faults' = faults + 1
        /\ req' = [req EXCEPT ![r] = FramesError(Ev(@, <<"fault">>), "create")]
        /\ UNCHANGED frames

\* const total = await db.frame.count({where: {projectId}})
FramesCount(r) ==
  /\ At(r, "f_count")
  /\ UNCHANGED <<db, store, inflight, onDeleteBeat, started, lastTotal>>
  /\ \/ /\ req' = [req EXCEPT ![r] =
             [@ EXCEPT !.pc = "f_get",
                       !.res = {Cardinality(FramesOf(req[r].proj))}]]
        /\ UNCHANGED faults
     \/ /\ MayFail
        /\ faults' = faults + 1
        /\ req' = [req EXCEPT ![r] = FramesError(Ev(@, <<"fault">>), "count")]

\* getProjectWithPlanningData: db.project.findFirst({where, include})
getProjectWithPlanningData(projectId, clerkId) ==
  IF FindProject(projectId, clerkId) THEN <<projectId>> ELSE NoData

\* project = await getProjectWithPlanningData(id, userId); the response is
\* {success: true, data: {total, project}}.
FramesGet(r) ==
  /\ At(r, "f_get")
  /\ UNCHANGED <<db, store, inflight, onDeleteBeat, started>>
  /\ \/ /\ \E total \in req[r].res :
             /\ req' = [req EXCEPT ![r] =
                  Reply(@, 200, TRUE,
                        getProjectWithPlanningData(@.proj, @.user), <<total>>)]
             /\ lastTotal' = [lastTotal EXCEPT ![req[r].proj] =
                  <<[total |-> total, beats |-> {b.id : b \in BeatsOf(req[r].proj)}]>>]
        /\ UNCHANGED faults
     \/ /\ MayFail
        /\ faults' = faults + 1
        /\ req' = [req EXCEPT ![r] = FramesError(Ev(@, <<"fault">>), "get")]
        /\ UNCHANGED lastTotal

FramesStep(r) ==
  \/ FramesFind(r) \/ FramesDelete(r) \/ FramesInsert(r) \/ FramesCount(r)
  \/ FramesGet(r)

\* --------------------------------------------- POST /api/projects/{id}/plan
\* A body is "bad" or names optional planAssetId and styleAssetId.
SelectBodies == { <<"bad">>, <<"ok", <<>>, <<>>>>, <<"ok", <<1>>, <<>>>> }

StartSelect(r, u, p, body) ==
  /\ Free(r)
  /\ req' = [req EXCEPT ![r] =
       IF u = NoUser
       THEN Reply(NewReq("select", u, p, body, "done"), 401, FALSE, NoData, <<>>)
       ELSE IF body[1] = "bad"
       THEN Reply(NewReq("select", u, p, body, "done"), 400, FALSE, NoData, <<>>)
       ELSE NewReq("select", u, p, body, "s_find")]
  /\ UNCHANGED <<db, store, inflight, onDeleteBeat, started, faults, lastTotal>>

\* project.assets filtered by label or key suffix
PlanAssets(S, filename) ==
  {a \in S : a.type = "DOC"
              /\ (a.label = filename \/ (a.key[3] = "plan" /\ a.key[4] = filename))}

\* planAssetId ? assets.find(a => a.id === planAssetId) : assets[0], the assets
\* ordered by createdAt desc; <<>> when there is none.
Chosen(S, wanted) ==
  IF wanted # <<>>
  THEN IF \E a \in S : a.id = wanted[1] THEN wanted ELSE <<>>
  ELSE IF S = {} THEN <<>>
  ELSE <<CHOOSE i \in {a.id : a \in S} : \A a \in S : a.id <= i>>

\* The updateAssetMeta calls pushed to `tasks`: [id, kind, active].
SelectTasks(S, body) ==
  {[id |-> a.id, kind |-> "plan",
    active |-> (<<a.id>> = Chosen(PlanAssets(S, "ProjectPlan.json"), body[2]))] :
     a \in PlanAssets(S, "ProjectPlan.json")}
  \cup
  {[id |-> a.id, kind |-> "style_bible_min",
    active |-> (<<a.id>> = Chosen(PlanAssets(S, "StyleBible.min.json"), body[3]))] :
     a \in PlanAssets(S, "StyleBible.min.json")}

\* db.project.findFirst({where: {id, owner}, include: {assets}})
SelectFind(r) ==
  /\ At(r, "s_find")
  /\ UNCHANGED <<db, store, inflight, onDeleteBeat, started, faults, lastTotal>>
  /\ LET p == req[r].proj IN
     IF ~FindProject(p, req[r].user)
     THEN req' = [req EXCEPT ![r] = Reply(@, 404, FALSE, NoData, <<>>)]
     ELSE LET tasks == SelectTasks(AssetsOf(p), req[r].arg) IN
          req' = [req EXCEPT ![r] =
            IF tasks = {}
            THEN Reply(@, 200, TRUE, <<p>>, <<>>)
            ELSE [@ EXCEPT !.pc = "s_upd", !.pend = tasks]]

\* updateAssetMeta: db.asset.update({where, data: {meta}})
updateAssetMeta(assetId, kind, active) ==
  {IF a.id = assetId THEN [a EXCEPT !.kind = kind, !.active = active] ELSE a :
     a \in assets}

\* await Promise.all(tasks): the updates, all started by the loops, land in any
\* order; a throw makes the handler answer 500 while the other updates go on.
SelectUpdate(r) ==
  /\ At(r, "s_upd")
  /\ UNCHANGED <<projects, beats, styleBibles, frames, progress, store, inflight,
                 onDeleteBeat, started, lastTotal>>
  /\ \E t \in req[r].pend :
       \/ /\ assets' = updateAssetMeta(t.id, t.kind, t.active)
          /\ req' = [req EXCEPT ![r] =
               IF req[r].pend = {t}
               THEN Reply([@ EXCEPT !.pend = {}], 200, TRUE, <<@.proj>>, <<>>)
               ELSE [@ EXCEPT !.pend = @ \ {t}]]
          /\ UNCHANGED faults
       \/ /\ MayFail
          /\ faults' = faults + 1
          /\ req' = [req EXCEPT ![r] =
               IF req[r].pend = {t}
               THEN Reply([@ EXCEPT !.pend = {}], 500, FALSE, NoData, <<>>)
               ELSE [Reply(@, 500, FALSE, NoData, <<>>)
                       EXCEPT !.pend = req[r].pend \ {t}, !.pc = "s_late"]]
          /\ UNCHANGED assets

\* An update left running by the rejected Promise.all lands after the answer.
SelectLate(r) ==
  /\ At(r, "s_late")
  /\ UNCHANGED <<projects, beats, styleBibles, frames, progress, store, inflight,
                 onDeleteBeat, started, faults, lastTotal>>
  /\ \E t \in req[r].pend :
       /\ assets' = updateAssetMeta(t.id, t.kind, t.active)
       /\ req' = [req EXCEPT ![r] =
            [@ EXCEPT !.pend = @ \ {t},
                      !.pc = IF req[r].pend = {t} THEN "done" ELSE "s_late"]]

\* ----------------------------------------------------------- read endpoints
\* GET /api/projects/{id}, GET /api/projects/{id}/plan and
\* GET /api/projects/{id}/narration: 401 without a user, 404 when findFirst
\* with the owner filter finds no row, the data otherwise.  GET plan downloads
\* the plan file and answers 500 when the object is missing.
ReadEndpoints == {"get_project", "get_plan", "get_narration"}

Get(r, u, p, which) ==
  /\ Free(r)
  /\ req' = [req EXCEPT ![r] =
       IF u = NoUser
       THEN Reply(NewReq(which, u, p, <<>>, "done"), 401, FALSE, NoData, <<>>)
       ELSE IF ~FindProject(p, u)
       THEN Reply(NewReq(which, u, p, <<>>, "done"), 404, FALSE, NoData, <<>>)
       ELSE IF which = "get_plan"
               /\ ~\E o \in store : o.key = PlanKey(p, "ProjectPlan.json")
       THEN Reply(NewReq(which, u, p, <<>>, "done"), 500, FALSE, NoData, <<>>)
       ELSE Reply(NewReq(which, u, p, <<>>, "done"), 200, TRUE,
                  <<p, projects[p].topic, projects[p].status,
                    Cardinality(BeatsOf(p))>>, <<>>)]
  /\ UNCHANGED <<db, store, inflight, onDeleteBeat, started, faults, lastTotal>>

\* The bodies tried with a caller: the handlers authenticate before they read
\* the body, so an anonymous caller is tried with one body only.
BodiesFor(u, bodies, one) == IF u = NoUser THEN {one} ELSE bodies

\* ------------------------------------------------------- lib/validation.ts
AssetTypes == {"AUDIO", "VIDEO", "FRAME", "DOC", "ALIGN", "CUE"}

\* File size limits in bytes.
FILE_SIZE_LIMITS(assetType) ==
  CASE assetType = "AUDIO" -> 50 * 1024 * 1024
    [] assetType = "VIDEO" -> 500 * 1024 * 1024
    [] assetType = "FRAME" -> 10 * 1024 * 1024
    [] assetType = "DOC" -> 5 * 1024 * 1024
    [] assetType = "ALIGN" -> 1024 * 1024
    [] assetType = "CUE" -> 1024 * 1024

ALLOWED_MIME_TYPES(assetType) ==
  CASE assetType = "AUDIO" ->
         {"audio/wav", "audio/wave", "audio/x-wav", "audio/mpeg", "audio/mp3",
          "audio/mp4", "audio/aac", "audio/ogg", "audio/webm"}
    [] assetType = "VIDEO" ->
         {"video/mp4", "video/mpeg", "video/quicktime", "video/x-msvideo",
          "video/webm", "video/ogg"}
    [] assetType = "FRAME" ->
         {"image/png", "image/jpeg", "image/jpg", "image/webp", "image/gif",
          "image/svg+xml"}
    [] assetType = "DOC" ->
         {"application/json", "application/pdf", "text/plain", "text/markdown",
          "application/msword",
          "application/vnd.openxmlformats-officedocument.wordprocessingml.document"}
    [] assetType = "ALIGN" -> {"application/json", "text/plain"}
    [] assetType = "CUE" -> {"application/json", "text/plain"}

ALLOWED_EXTENSIONS(assetType) ==
  CASE assetType = "AUDIO" -> {".wav", ".mp3", ".mp4", ".aac", ".ogg", ".webm", ".m4a"}
    [] assetType = "VIDEO" -> {".mp4", ".mpeg", ".mov", ".avi", ".webm", ".ogv", ".mkv"}
    [] assetType = "FRAME" -> {".png", ".jpg", ".jpeg", ".webp", ".gif", ".svg"}
    [] assetType = "DOC" -> {".json", ".pdf", ".txt", ".md", ".doc", ".docx"}
    [] assetType = "ALIGN" -> {".json", ".txt"}
    [] assetType = "CUE" -> {".json", ".txt"}

\* A filename is the sequence of its parts between the dots:
\* <<"StyleBible", "min", "json">> is StyleBible.min.json.
Filenames ==
  { <<"beat_001", "MP3">>, <<"beat_001", "json">>, <<"B1_F2", "png">>,
    <<"ProjectPlan", "json">>, <<"StyleBible", "min", "json">>,
    <<"cues", "json">>, <<"final", "mov">>, <<"final", "json">>,
    <<"README">>, <<"notes", "exe">>, <<"clip", "mp4">> }

\* "." followed by the part in lower case.
DotLower(part) ==
  CASE part = "MP3" -> ".mp3"
    [] part = "json" -> ".json"
    [] part = "png" -> ".png"
    [] part = "mov" -> ".mov"
    [] part = "mp4" -> ".mp4"
    [] part = "exe" -> ".exe"
    [] OTHER -> ".other"

\* lastDot !== -1 ? filename.slice(lastDot).toLowerCase() : ''
getFileExtension(filename) ==
  IF Len(filename) > 1 THEN DotLower(filename[Len(filename)]) ELSE ""

\* The filename patterns; <<>> stands for no expected pattern.
FILENAME_PATTERNS ==
  {"BEAT_AUDIO", "BEAT_ALIGNMENT", "FRAME", "PROJECT_PLAN", "STYLE_BIBLE",
   "CUES", "FINAL_VIDEO", "FINAL_ALIGNMENT"}

\* pattern.test(filename): the regular expressions are anchored and ignore case.
PatternTest(pattern, filename) ==
  LET ext == getFileExtension(filename) IN
  CASE pattern = "BEAT_AUDIO" ->
         /\ Len(filename) = 2 /\ filename[1] = "beat_001"
         /\ ext \in {".wav", ".mp3", ".mp4", ".aac", ".ogg", ".webm", ".m4a"}
    [] pattern = "BEAT_ALIGNMENT" ->
         Len(filename) = 2 /\ filename[1] = "beat_001" /\ ext = ".json"
    [] pattern = "FRAME" ->
         /\ Len(filename) = 2 /\ filename[1] = "B1_F2"
         /\ ext \in {".png", ".jpg", ".jpeg", ".webp", ".gif"}
    [] pattern = "PROJECT_PLAN" -> filename = <<"ProjectPlan", "json">>
    [] pattern = "STYLE_BIBLE" -> filename = <<"StyleBible", "min", "json">>
    [] pattern = "CUES" -> filename = <<"cues", "json">>
    [] pattern = "FINAL_VIDEO" ->
         /\ Len(filename) = 2 /\ filename[1] = "final"
         /\ ext \in {".mp4", ".webm", ".mov"}
    [] pattern = "FINAL_ALIGNMENT" -> filename = <<"final", "json">>

ValidationResult(isValid, errors, warnings) ==
  [isValid |-> isValid, errors |-> errors, warnings |-> warnings]

validateFileSize_AtLimit(size, assetType) ==
  ValidationResult(size < FILE_SIZE_LIMITS(assetType),
    IF size >= FILE_SIZE_LIMITS(assetType) THEN << <<"size", size>> >> ELSE <<>>,
    IF 2 * size > FILE_SIZE_LIMITS(assetType) THEN << <<"large", size>> >> ELSE <<>>)

validateFileSize(size, assetType) ==
  ValidationResult(~(size > FILE_SIZE_LIMITS(assetType)),
    IF size > FILE_SIZE_LIMITS(assetType) THEN << <<"size", size>> >> ELSE <<>>,
    IF 2 * size > FILE_SIZE_LIMITS(assetType) THEN << <<"large", size>> >> ELSE <<>>)

\* mimeType is <<>> when the argument is left out.
validateMimeType(mimeType, assetType) ==
  IF mimeType = <<>>
  THEN ValidationResult(FALSE, << <<"mime_required">> >>, <<>>)
  ELSE IF mimeType[1] \notin ALLOWED_MIME_TYPES(assetType)
  THEN ValidationResult(FALSE, << <<"mime", mimeType[1]>> >>, <<>>)
  ELSE ValidationResult(TRUE, <<>>, <<>>)

validateFileExtension(filename, assetType) ==
  IF getFileExtension(filename) \notin ALLOWED_EXTENSIONS(assetType)
  THEN ValidationResult(FALSE, << <<"extension", getFileExtension(filename)>> >>, <<>>)
  ELSE ValidationResult(TRUE, <<>>, <<>>)

validateFilenamePattern(filename, expectedPattern) ==
  IF expectedPattern = <<>> THEN ValidationResult(TRUE, <<>>, <<>>)
  ELSE IF ~PatternTest(expectedPattern[1], filename)
  THEN ValidationResult(FALSE, << <<"pattern", expectedPattern[1]>> >>, <<>>)
  ELSE ValidationResult(TRUE, <<>>, <<>>)

\* for (const result of results): isValid is and-ed, errors and warnings are
\* appended in the order of the checks.
RECURSIVE Combine(_)
Combine(results) ==
  IF results = <<>> THEN ValidationResult(TRUE, <<>>, <<>>)
  ELSE LET rest == Combine(Tail(results)) IN
       ValidationResult(Head(results).isValid /\ rest.isValid,
                        Head(results).errors \o rest.errors,
                        Head(results).warnings \o rest.warnings)

validateFile_FirstFailure(filename, size, assetType, mimeType, expectedPattern) ==
  LET results == << validateFileSize(size, assetType),
                    validateFileExtension(filename, assetType),
                    validateMimeType(mimeType, assetType),
                    validateFilenamePattern(filename, expectedPattern) >>
      failed == SelectSeq(results, LAMBDA x : ~x.isValid)
  IN IF failed = <<>> THEN Combine(results) ELSE Head(failed)

validateFile(filename, size, assetType, mimeType, expectedPattern) ==
  Combine(<< validateFileSize(size, assetType),
             validateFileExtension(filename, assetType),
             validateMimeType(mimeType, assetType),
             validateFilenamePattern(filename, expectedPattern) >>)

\* The inputs of a validation: buffers of the sizes around a ceiling, the MIME
\* type given or left out, a pattern expected or not.
BufferSizes(assetType) ==
  {0, FILE_SIZE_LIMITS(assetType) \div 2, FILE_SIZE_LIMITS(assetType) \div 2 + 1,
   FILE_SIZE_LIMITS(assetType), FILE_SIZE_LIMITS(assetType) + 1}

MimeTypes ==
  {<<>>, <<"application/json">>, <<"audio/mpeg">>, <<"image/png">>,
   <<"video/mp4">>, <<"text/plain">>, <<"Application/JSON">>}

ExpectedPatterns == {<<>>} \cup {<<pat>> : pat \in FILENAME_PATTERNS}

\* A caller validates a file: the arguments and the result are kept in the slot.
\* The function keeps no state, so a behaviour holds one application of it.
ValidateRequest(r) ==
  /\ At(r, "idle")
  /\ \E filename \in Filenames, assetType \in AssetTypes,
        mimeType \in MimeTypes, expectedPattern \in ExpectedPatterns :
       \E size \in BufferSizes(assetType) :
         req' = [req EXCEPT ![r] =
           [NewReq("validate", NoUser, "p0",
                   <<filename, size, assetType, mimeType, expectedPattern>>, "done")
              EXCEPT !.snap =
                <<validateFile(filename, size, assetType, mimeType, expectedPattern)>>]]
  /\ UNCHANGED <<db, store, inflight, onDeleteBeat, started, faults, lastTotal>>

\* ---------------------------------------------------- storage test route
\* Buffers are sequences of bytes.
Bytes == {0, 255}
Buffers == UNION {[1..n -> Bytes] : n \in 0..MaxBufferLen}

\* 'asset-test-' + Date.now(): two requests of one millisecond share the id.
TestProjectIds == {"asset-test-1", "asset-test-2"}
TestFilenames == {"test-document.json", "beat_1.wav"}

\* PutObjectCommand with Body: fileBuffer under the generated key.
uploadFile(projectId, type, filename, fileBuffer) ==
  PutObject(generateFilePath(projectId, type, filename), fileBuffer)

\* PutObjectCommand under the plan key.
uploadPlanFile(projectId, filename, content) ==
  PutObject(generatePlanFilePath(projectId, filename), content)

\* DeleteObjectCommand.
deleteFile(key) == {o \in store : o.key # key}

\* Buffer.concat(chunks)
BufferConcat_LastChunk(chunks) ==
  IF chunks = <<>> THEN <<>> ELSE chunks[Len(chunks)]

RECURSIVE BufferConcat(_)
BufferConcat(chunks) ==
  IF chunks = <<>> THEN <<>> ELSE Head(chunks) \o BufferConcat(Tail(chunks))

\* client.send(command): the adapter hands one command to the store.
Sent(rec, op) == Ev(rec, <<"send", op>>)

\* The catch block of an adapter operation: the error of the store is logged
\* and thrown again as one Error('Failed to ...'); the caller answers 500.
StorageFailure_Retry(rec, op, data) == Ev(rec, <<"retry", op>>)

StorageFailure(rec, op, data) ==
  Reply(Ev(rec, <<"throw", op>>), 500, FALSE, data, <<>>)

\* The key a storage test got from uploadFile, <<>> before the upload returns.
UploadedKey(rec) == rec.prev

\* Slot q has uploaded and not yet fetched the object under key.
AwaitsDownload(q, key) ==
  req[q].kind = "storage" /\ At(q, "st_download") /\ UploadedKey(req[q]) = <<key>>

\* Slot r takes the record rec while it writes or deletes the object under
\* key: the slots that wait to fetch that object note the intervention.
Intervene(r, rec, key) ==
  [q \in Slots |->
     IF q = r THEN rec
     ELSE IF AwaitsDownload(q, key) THEN [req[q] EXCEPT !.res = {"intervened"}]
     ELSE req[q]]

\* One pass of the loop over the asset types, for any type, file and buffer
\* (the validation result is only reported and is left out).
StorageStart(r, types) ==
  /\ At(r, "idle")
  /\ \E projectId \in TestProjectIds, type \in types,
        filename \in TestFilenames, testBuffer \in Buffers :
       req' = [req EXCEPT ![r] =
         NewReq("storage", NoUser, projectId, <<type, filename, testBuffer>>, "st_upload")]
  /\ UNCHANGED <<db, store, inflight, onDeleteBeat, started, faults, lastTotal>>

\* await uploadFile(testProjectId, assetType, testFilename, testBuffer, contentType)
StorageUpload(r) ==
  /\ At(r, "st_upload")
  /\ LET key == generateFilePath(req[r].proj, req[r].arg[1], req[r].arg[2]) IN
     \/ /\ store' = uploadFile(req[r].proj, req[r].arg[1], req[r].arg[2], req[r].arg[3])
        /\ req' = Intervene(r,
             [Sent(req[r], "uploadFile") EXCEPT !.prev = <<key>>, !.pc = "st_download"],
             key)
        /\ UNCHANGED faults
     \/ /\ MayFail
        /\ faults' = faults + 1
        /\ req' = [req EXCEPT ![r] =
             StorageFailure(Sent(req[r], "uploadFile"), "uploadFile", NoData)]
        /\ UNCHANGED store
  /\ UNCHANGED <<db, inflight, onDeleteBeat, started, lastTotal>>

\* downloadFile: GetObjectCommand; the body of the object is a stream.
StorageDownload(r) ==
  /\ At(r, "st_download")
  /\ LET key == UploadedKey(req[r])[1] IN
     \/ /\ \E o \in store :
             /\ o.key = key
             /\ req' = [req EXCEPT ![r] =
                  [Sent(req[r], "downloadFile") EXCEPT
                     !.todo = o.body, !.snap = <<>>, !.pc = "st_stream"]]
        /\ UNCHANGED faults
     \/ /\ ~\E o \in store : o.key = key
        /\ req' = [req EXCEPT ![r] =
             StorageFailure(Sent(req[r], "downloadFile"), "downloadFile", NoData)]
        /\ UNCHANGED faults
     \/ /\ MayFail
        /\ faults' = faults + 1
        /\ req' = [req EXCEPT ![r] =
             StorageFailure(Sent(req[r], "downloadFile"), "downloadFile", NoData)]
  /\ UNCHANGED <<db, store, inflight, onDeleteBeat, started, lastTotal>>

\* for await (const chunk of stream) chunks.push(chunk); Buffer.concat(chunks):
\* the transport cuts the body into chunks of any sizes.
StorageStream(r) ==
  /\ At(r, "st_stream")
  /\ IF req[r].todo # <<>>
     THEN \E n \in 1..Len(req[r].todo) :
            req' = [req EXCEPT ![r] =
              [req[r] EXCEPT !.snap = Append(req[r].snap, SubSeq(req[r].todo, 1, n)),
                             !.todo = SubSeq(req[r].todo, n + 1, Len(req[r].todo))]]
     ELSE req' = [req EXCEPT ![r] =
            [req[r] EXCEPT !.snap = <<BufferConcat(req[r].snap)>>, !.pc = "st_delete"]]
  /\ UNCHANGED <<db, store, inflight, onDeleteBeat, started, faults, lastTotal>>

\* contentMatches = Buffer.compare(testBuffer, downloadedBuffer) === 0, then
\* await deleteFile(uploadResult.key).
StorageDelete(r) ==
  /\ At(r, "st_delete")
  /\ LET key == UploadedKey(req[r])[1]
         downloadedBuffer == req[r].snap[1]
         contentMatches == req[r].arg[3] = downloadedBuffer
     IN
     \/ /\ store' = deleteFile(key)
        /\ req' = Intervene(r,
             Reply(Sent(req[r], "deleteFile"), 200, contentMatches,
                   <<downloadedBuffer>>, <<>>),
             key)
        /\ UNCHANGED faults
     \/ /\ MayFail
        /\ faults' = faults + 1
        /\ req' = [req EXCEPT ![r] =
             StorageFailure(Sent(req[r], "deleteFile"), "deleteFile",
                            <<downloadedBuffer>>)]
        /\ UNCHANGED store
  /\ UNCHANGED <<db, inflight, onDeleteBeat, started, lastTotal>>

StorageRequest(r, types) ==
  \/ StorageStart(r, types)
  \/ StorageUpload(r)
  \/ StorageDownload(r)
  \/ StorageStream(r)
  \/ StorageDelete(r)

\* A plan file is to be uploaded for a project.
PlanFileStart(r) ==
  /\ At(r, "idle")
  /\ \E projectId \in TestProjectIds,
        filename \in {"ProjectPlan.json", "StyleBible.min.json"} :
       req' = [req EXCEPT ![r] =
         NewReq("planfile", NoUser, projectId, <<filename>>, "pf_upload")]
  /\ UNCHANGED <<db, store, inflight, onDeleteBeat, started, faults, lastTotal>>

\* await uploadPlanFile(projectId, filename, content)
PlanFileUpload(r) ==
  /\ At(r, "pf_upload")
  /\ LET key == generatePlanFilePath(req[r].proj, req[r].arg[1]) IN
     \/ /\ store' = uploadPlanFile(req[r].proj, req[r].arg[1], <<0>>)
        /\ req' = Intervene(r,
             Reply([Sent(req[r], "uploadPlanFile") EXCEPT !.prev = <<key>>],
                   200, TRUE, NoData, <<>>),
             key)
        /\ UNCHANGED faults
     \/ /\ MayFail
        /\ faults' = faults + 1
        /\ req' = [req EXCEPT ![r] =
             StorageFailure(Sent(req[r], "uploadPlanFile"), "uploadPlanFile", NoData)]
        /\ UNCHANGED store
  /\ UNCHANGED <<db, inflight, onDeleteBeat, started, lastTotal>>

\* ------------------------------------------------------- /api/plan/test
\* generateMockPlan(topic): the fixed plan of the test endpoint.  A text is kept
\* as its number in the list, with the topic when the text quotes it.
MockDurations == <<8, 12, 15, 18, 20, 16, 14, 10>>
MockQuotesTopic == {0, 1, 2, 7}
MockBeatFrames == <<2, 3, 4, 3, 3, 2>>
MockBeatDurations == <<20, 27, 33, 38, 36, 24>>
MockBeatStarts == <<0, 20, 47, 80, 118, 154>>

mockDialogue(topic) ==
  [i \in 1..Len(MockDurations) |->
     [index |-> i - 1,
      text |-> IF i - 1 \in MockQuotesTopic THEN <<i - 1, topic>> ELSE <<i - 1>>,
      estimatedDuration |-> MockDurations[i]]]

mockBeats(topic) ==
  [i \in 1..Len(MockBeatFrames) |->
     [index |-> i,
      summary |-> IF i = 1 THEN <<i, topic>> ELSE <<i>>,
      onScreenText |-> IF i = 1 THEN <<i, topic>> ELSE <<i>>,
      plannedFrames |-> MockBeatFrames[i],
      durationS |-> MockBeatDurations[i]]]

mockTimeline ==
  [totalDuration |-> 180,
   beatTimings |->
     [i \in 1..Len(MockBeatStarts) |->
        [beatIndex |-> i, startTime |-> MockBeatStarts[i],
         endTime |-> MockBeatStarts[i] + MockBeatDurations[i]]]]

generateMockPlan_FromTimings(topic) ==
  [dialogueInputs |-> mockDialogue(topic),
   beats |-> mockBeats(topic),
   styleBibleMin |-> "mockStyleBible",
   timelineSkeleton |->
     [mockTimeline EXCEPT !.totalDuration =
        mockTimeline.beatTimings[Len(mockTimeline.beatTimings)].endTime]]

generateMockPlan(topic) ==
  [dialogueInputs |-> mockDialogue(topic),
   beats |-> mockBeats(topic),
   styleBibleMin |-> "mockStyleBible",
   timelineSkeleton |-> mockTimeline]

\* The body of the answer: topic, status, planResponse and metadata.
PlanTestData(topic) ==
  LET mockPlan == generateMockPlan(topic) IN
  <<topic, "PLANNED", mockPlan,
    [totalDuration |-> mockPlan.timelineSkeleton.totalDuration,
     beatCount |-> Len(mockPlan.beats),
     dialogueCount |-> Len(mockPlan.dialogueInputs)]>>

\* POST picks its topic with Math.random().
TestTopics ==
  {"The science of productivity", "Understanding cryptocurrency",
   "Building sustainable habits", "The psychology of decision making"}

\* GET /api/plan/test: no await, the answer is built in one step.
PlanTestGet(r) ==
  /\ Free(r)
  /\ req' = [req EXCEPT ![r] =
       Reply(NewReq("plan_test_get", NoUser, "p0", <<>>, "done"), 200, TRUE,
             PlanTestData("How to make the perfect coffee"), <<>>)]
  /\ UNCHANGED <<db, store, inflight, onDeleteBeat, started, faults, lastTotal>>

\* POST /api/plan/test: the plan is generated, then the handler waits a second.
PlanTestPost(r) ==
  /\ Free(r)
  /\ \E randomTopic \in TestTopics :
       req' = [req EXCEPT ![r] =
         [NewReq("plan_test_post", NoUser, "p0", <<>>, "t_wait")
            EXCEPT !.snap = PlanTestData(randomTopic)]]
  /\ UNCHANGED <<db, store, inflight, onDeleteBeat, started, faults, lastTotal>>

\* await new Promise(resolve => setTimeout(resolve, 1000)), then the answer.
PlanTestAnswer(r) ==
  /\ At(r, "t_wait")
  /\ req' = [req EXCEPT ![r] = Reply(req[r], 200, TRUE, req[r].snap, <<>>)]
  /\ UNCHANGED <<db, store, inflight, onDeleteBeat, started, faults, lastTotal>>

PlanTestRequest(r) == PlanTestGet(r) \/ PlanTestPost(r) \/ PlanTestAnswer(r)

\* ----------------------------------------------------------- GET /api/health
\* The environment of the process: which settings are present.
Environments ==
  [hasClerkKeys : BOOLEAN, hasDatabaseUrl : BOOLEAN, hasR2Config : BOOLEAN,
   hasOpenAIKey : BOOLEAN]

\* The request arrives; the checks run one after the other.
HealthStart(r) ==
  /\ Free(r)
  /\ \E env \in Environments :
       req' = [req EXCEPT ![r] = NewReq("health", NoUser, "p0", <<env>>, "h_db")]
  /\ UNCHANGED <<db, store, inflight, onDeleteBeat, started, faults, lastTotal>>

\* dbHealthy = await checkDatabaseConnection(): SELECT 1 answers or throws,
\* and the throw is caught inside the check.
HealthDatabase(r) ==
  /\ At(r, "h_db")
  /\ \E dbHealthy \in BOOLEAN :
       req' = [req EXCEPT ![r] =
         [req[r] EXCEPT !.snap = <<dbHealthy>>, !.pc = "h_storage"]]
  /\ UNCHANGED <<db, store, inflight, onDeleteBeat, started, faults, lastTotal>>

\* storageHealthy = await checkR2Connection(): false without the R2 settings
\* (getR2Client throws inside the check), the answer of HeadBucket otherwise.
HealthStorage(r) ==
  /\ At(r, "h_storage")
  /\ \E reachable \in BOOLEAN :
       req' = [req EXCEPT ![r] =
         [req[r] EXCEPT
            !.snap = Append(req[r].snap, req[r].arg[1].hasR2Config /\ reachable),
            !.pc = "h_llm"]]
  /\ UNCHANGED <<db, store, inflight, onDeleteBeat, started, faults, lastTotal>>

\* llmHealthy = await testOpenAIConnection(): false without the API key, the
\* outcome of a five-token completion otherwise.
HealthLlm(r) ==
  /\ At(r, "h_llm")
  /\ \E reachable \in BOOLEAN :
       req' = [req EXCEPT ![r] =
         [req[r] EXCEPT
            !.snap = Append(req[r].snap, req[r].arg[1].hasOpenAIKey /\ reachable),
            !.pc = "h_answer"]]
  /\ UNCHANGED <<db, store, inflight, onDeleteBeat, started, faults, lastTotal>>

\* healthStatus.status and the services block.
HealthStatus(env, dbHealthy, storageHealthy, llmHealthy) ==
  [status |-> IF dbHealthy /\ env.hasClerkKeys /\ env.hasDatabaseUrl
                  /\ storageHealthy /\ env.hasOpenAIKey
               THEN "healthy" ELSE "degraded",
   database |-> IF dbHealthy THEN "operational" ELSE "unavailable",
   storage |-> IF storageHealthy THEN "operational"
               ELSE IF env.hasR2Config THEN "unavailable" ELSE "not_configured",
   llm |-> IF llmHealthy THEN "operational"
           ELSE IF env.hasOpenAIKey THEN "unavailable" ELSE "not_configured"]

\* statusCode = status === 'healthy' ? 200 : 503; ok = status === 'healthy'
HealthAnswer(r) ==
  /\ At(r, "h_answer")
  /\ LET healthStatus == HealthStatus(req[r].arg[1], req[r].snap[1],
                                      req[r].snap[2], req[r].snap[3])
     IN req' = [req EXCEPT ![r] =
          Reply(req[r], IF healthStatus.status = "healthy" THEN 200 ELSE 503,
                healthStatus.status = "healthy", <<healthStatus>>, <<>>)]
  /\ UNCHANGED <<db, store, inflight, onDeleteBeat, started, faults, lastTotal>>

HealthRequest(r) ==
  \/ HealthStart(r) \/ HealthDatabase(r) \/ HealthStorage(r) \/ HealthLlm(r)
  \/ HealthAnswer(r)

\* ----------------------------------------------------------- specifications
\* No work of an earlier request is still running.
Quiet == inflight = {}

CreateRequest(r) ==
  \/ \E u \in Callers : \E t \in BodiesFor(u, Topics \cup {""}, "") :
       Quiet /\ StartCreate(r, u, t)
  \/ CreateProjectRow(r)

PlanRequest(r, plans) ==
  \/ \E u \in Callers, p \in ProjectIds : \E ok \in BodiesFor(u, BOOLEAN, TRUE) :
       Quiet /\ StartPlan(r, u, p, ok)
  \/ PlanStep(r, plans)

NarrationRequest(r) ==
  \/ \E u \in Callers, p \in ProjectIds :
       \E body \in BodiesFor(u, NarrationBodies, <<"batch", 0, 0>>) :
         Quiet /\ StartNarration(r, u, p, body)
  \/ NarrStep(r)

FramesRequest(r) ==
  \/ \E u \in Callers, p \in ProjectIds : Quiet /\ StartFrames(r, u, p)
  \/ FramesStep(r)

SelectRequest(r) ==
  \/ \E u \in Callers, p \in ProjectIds :
       \E body \in BodiesFor(u, SelectBodies, <<"bad">>) :
         Quiet /\ StartSelect(r, u, p, body)
  \/ SelectFind(r) \/ SelectUpdate(r) \/ SelectLate(r)

ReadRequest(r) ==
  \E u \in Callers, p \in ProjectIds, which \in ReadEndpoints :
    Quiet /\ Get(r, u, p, which)

\* The stage handlers that move the status, one request at a time.
Next ==
  \/ CreateRequest("r1") \/ PlanRequest("r1", Plans) \/ NarrationRequest("r1")
  \/ BackgroundBeatInsert

\* No frame exists under Next, so the referential action never acts there.
InitStage == Init /\ onDeleteBeat = "Cascade"

Spec == InitStage /\ [][Next]_vars

\* Planning and frame materialization, one request at a time.
NextFrames ==
  \/ CreateRequest("r1") \/ PlanRequest("r1", Plans) \/ FramesRequest("r1")
  \/ BackgroundBeatInsert

SpecFrames == Init /\ [][NextFrames]_vars

\* Every endpoint, one request at a time.
NextAll ==
  \/ CreateRequest("r1") \/ PlanRequest("r1", {"A"}) \/ NarrationRequest("r1")
  \/ FramesRequest("r1") \/ SelectRequest("r1") \/ ReadRequest("r1")
  \/ BackgroundBeatInsert

SpecAll == Init /\ [][NextAll]_vars

\* Frame materialization requests that overlap each other and planning.
NextFramesRace ==
  \/ CreateRequest("r1") \/ PlanRequest("r1", {"A"})
  \/ \E r \in Slots : FramesRequest(r)
  \/ BackgroundBeatInsert

SpecFramesRace == Init /\ [][NextFramesRace]_vars

\* The overlapping requests are few: what they do to each other is the subject.
RaceBudget == started' <= MaxRaceRequests

\* The steps of the plan handler that write rows.
PlanDbPhase ==
  {"p_beats_del", "p_beats_ins", "p_style_del", "p_style_ins", "p_asset1",
   "p_asset2", "p_status"}

\* The steps of the narration handler that write rows.
NarrDbPhase == {"n_assets", "n_status"}

\* A request enters while the request of the other slot is writing rows: the
\* steps before that write only log entries, in which the rows have no part.
Staggered(r) ==
  Free(r) =>
    \A q \in Slots \ {r} : Free(q) \/ req[q].pc \in PlanDbPhase \cup NarrDbPhase

\* Plan requests that overlap each other on one project.
NextPlanRace ==
  \/ CreateRequest("r1")
  \/ \E r \in Slots : PlanRequest(r, {"A", "D"}) /\ RaceBudget /\ Staggered(r)
  \/ BackgroundBeatInsert

SpecPlanRace == InitStage /\ [][NextPlanRace]_vars

\* A plan request and a narration request overlap on one project.
\* A service fails under a request that runs alone: what a failure does to a
\* run is seen one request at a time.
FaultsAlone(r) ==
  faults' # faults => \A q \in Slots \ {r} : Free(q)

\* POST /api/narration in batch mode.
BatchNarrationRequest(r) ==
  \/ \E u \in Users, p \in ProjectIds :
       Quiet /\ StartNarration(r, u, p, <<"batch", 0, 0>>)
  \/ NarrStep(r)

NextStageRace ==
  \/ CreateRequest("r1")
  \/ PlanRequest("r1", {"A", "B"}) /\ Staggered("r1") /\ FaultsAlone("r1")
  \/ BatchNarrationRequest("r2") /\ Staggered("r2") /\ FaultsAlone("r2")
  \/ BackgroundBeatInsert

SpecStageRace == InitStage /\ [][NextStageRace]_vars

\* File validation, a pure function of its arguments.
NextValidate == ValidateRequest("r1")

SpecValidate == InitStage /\ [][NextValidate]_vars

\* Storage tests and plan file uploads overlap each other: a test of any asset
\* type on one slot, a test of a document or an audio file on the other.
NextStorage ==
  \/ StorageRequest("r1", AssetTypes)
  \/ StorageRequest("r2", {"DOC", "AUDIO"})
  \/ \E r \in Slots : PlanFileStart(r) \/ PlanFileUpload(r)

SpecStorage == InitStage /\ [][NextStorage]_vars

\* Topics of 1..500 characters: the schema neither trims nor rewrites them.
CreateTopics == Topics \cup {" tea ", "T"}

\* A project is created on one slot with any topic; the other slot plans it
\* and reads it.
NextCreate ==
  \/ \E u \in Callers : \E t \in BodiesFor(u, CreateTopics \cup {""}, "") :
       StartCreate("r1", u, t)
  \/ CreateProjectRow("r1")
  \/ PlanRequest("r2", {"A"})
  \/ ReadRequest("r2")
  \/ BackgroundBeatInsert

SpecCreate == InitStage /\ [][NextCreate]_vars

\* The plan test endpoint is called while projects are created and planned.
NextPlanTest ==
  \/ CreateRequest("r1")
  \/ PlanRequest("r1", {"A"}) /\ RaceBudget
  \/ PlanTestRequest("r2")
  \/ BackgroundBeatInsert

SpecPlanTest == InitStage /\ [][NextPlanTest]_vars

\* The health endpoint, one request at a time.
NextHealth == HealthRequest("r1")

SpecHealth == InitStage /\ [][NextHealth]_vars

\* Requests that select the active plan overlap each other; plans are made one
\* at a time.
NextSelectRace ==
  \/ CreateRequest("r1")
  \/ PlanRequest("r1", {"A"}) /\ RaceBudget
  \/ \E r \in Slots : SelectRequest(r)
  \/ BackgroundBeatInsert

SpecSelectRace == InitStage /\ [][NextSelectRace]_vars

\* ================================================================== claims
Last(seq) == seq[Len(seq)]

\* The body of the request passed the handler's schema.
WellFormed(rec) ==
  CASE rec.kind = "plan" -> rec.arg[1] = TRUE
    [] rec.kind \in {"narration", "select"} -> rec.arg[1] # "bad"
    [] OTHER -> TRUE

StageKinds == {"plan", "narration", "frames", "select"}

\* C1: every read endpoint bound to a project id and every stage endpoint
\* answers a well-formed request of an authenticated user who does not own the
\* project with a not-found/unauthorized response (401 or 404) that carries no
\* data of the project.
C1_NonOwnerRefused ==
  \A r \in Slots :
    LET rec == req[r] IN
    ( /\ rec.pc = "done"
      /\ rec.kind \in StageKinds \cup ReadEndpoints
      /\ rec.user \in Users
      /\ Exists(rec.proj) /\ projects[rec.proj].owner # rec.user
      /\ WellFormed(rec) )
    => (rec.resp.code \in {401, 404} /\ rec.resp.data = NoData)

\* The caller of the request is anonymous or does not own the project.
Stranger(rec) ==
  /\ rec.kind \in StageKinds
  /\ (rec.user = NoUser \/ ~FindProject(rec.proj, rec.user))

\* C2: no step of a POST plan, narration, frames or select request made by an
\* unauthenticated caller or by a user who does not own the project changes
\* any row: status, beats, style bibles, frames, assets (with their active
\* flags) and progress entries are after the step what they were before it.
C2_StrangerChangesNothing ==
  [][\A r \in Slots :
       (req'[r] # req[r] /\ Stranger(req'[r])) => db' = db]_vars

\* A non-owner's select request was answered while the project has beats and
\* an asset marked active.
C2_Witness ==
  \E r \in Slots, p \in ProjectIds :
    /\ req[r].pc = "done" /\ req[r].kind = "select" /\ req[r].proj = p
    /\ req[r].user \in Users /\ Exists(p) /\ projects[p].owner # req[r].user
    /\ WellFormed(req[r])
    /\ BeatsOf(p) # {}
    /\ \E a \in AssetsOf(p) : a.active

\* C3: no step moves the status of a project to a value earlier in the chain
\* PLANNED, NARRATED, ALIGNED, CUES_READY, FRAMES_READY, ASSEMBLED than its
\* current value.
C3_StatusOnlyAdvances ==
  [][\A p \in ProjectIds :
       (projects[p].exists /\ projects'[p].exists)
         => StatusRank(projects'[p].status) >= StatusRank(projects[p].status)]_vars

\* The request of slot r recorded a progress entry in this step.
Recorded(r) ==
  /\ Len(req'[r].ev) = Len(req[r].ev) + 1
  /\ Last(req'[r].ev)[1] = "progress"

\* C4: the progress log of a project is append-only: every step leaves the
\* earlier log as a prefix of the later one, and a step that records an entry
\* adds exactly that one entry at the end.
C4_ProgressAppendOnly ==
  [][\A p \in ProjectIds :
       LET old == progress[p]
           new == progress'[p]
       IN /\ Len(new) \in {Len(old), Len(old) + 1}
          /\ SubSeq(new, 1, Len(old)) = old
          /\ \A r \in Slots :
               (Recorded(r) /\ req'[r].proj = p) =>
                  /\ Len(new) = Len(old) + 1
                  /\ Last(new) = [phase |-> Last(req'[r].ev)[2],
                                  status |-> Last(req'[r].ev)[3],
                                  inv |-> req'[r].inv]]_vars

\* The log holds a FAILED entry of one invocation and, after it, the
\* PLANNING_COMPLETE entry of a later invocation (re-planning).
C4_Witness ==
  \E p \in ProjectIds :
    \E i, j \in 1..Len(progress[p]) :
      /\ i < j
      /\ progress[p][i].status = "FAILED"
      /\ progress[p][j].phase = "PLANNING_COMPLETE"
      /\ progress[p][j].inv # progress[p][i].inv

ExternalFailure(e) == e[1] \in {"llm_failed", "upload_failed", "tts_failed"}

\* A remaining step of a stage: an external call, an upload or a row write.
StageWork(e) == e[1] \in {"llm", "tts", "upload", "delete", "row", "status"}

\* C5: when the external call of a stage handler fails, the invocation
\* performs none of the remaining steps (no later call, upload, row write or
\* status update), records a FAILED entry and returns an error response.
C5_ExternalFailureStopsStage ==
  \A r \in Slots :
    \A i \in 1..Len(req[r].ev) :
      ExternalFailure(req[r].ev[i]) =>
        /\ \A j \in (i + 1)..Len(req[r].ev) : ~StageWork(req[r].ev[j])
        /\ req[r].pc = "done" =>
             /\ ~req[r].resp.success
             /\ \E j \in (i + 1)..Len(req[r].ev) :
                  req[r].ev[j][1] = "progress" /\ req[r].ev[j][3] = "FAILED"

Successful(rec, kind) == rec.kind = kind /\ rec.pc = "done" /\ rec.resp.success

IsEntry(e, phase, status) == e[1] = "progress" /\ e[2] = phase /\ e[3] = status

\* The COMPLETED entry of the stage as a whole.
StageCompleted(rec, e) ==
  IF rec.kind = "plan" THEN IsEntry(e, "PLANNING_COMPLETE", "COMPLETED")
  ELSE IsEntry(e, "NARRATION_COMPLETE", "COMPLETED")

Persisting(e) == e[1] \in {"upload", "delete", "row"}

\* C6 (as claimed): in every successful run of a stage handler the COMPLETED
\* entry of the stage is recorded before the status is written.
C6_CompletedBeforeStatus ==
  \A r \in Slots :
    (Successful(req[r], "plan") \/ Successful(req[r], "narration")) =>
      \A i, j \in 1..Len(req[r].ev) :
        (req[r].ev[i][1] = "status" /\ StageCompleted(req[r], req[r].ev[j]))
          => j < i

\* C6 (amended): in every successful run of a stage handler the status is
\* written exactly once, after every upload and every row write of the run,
\* and the COMPLETED entry of the stage is recorded after it, as the last step.
C6_PersistThenStatusThenCompleted ==
  \A r \in Slots :
    (Successful(req[r], "plan") \/ Successful(req[r], "narration")) =>
      LET ev == req[r].ev IN
      \E s \in 1..Len(ev) :
        /\ ev[s][1] = "status"
        /\ \A i \in 1..Len(ev) :
             /\ ev[i][1] = "status" => i = s
             /\ Persisting(ev[i]) => i < s
             /\ StageCompleted(req[r], ev[i]) => (s < i /\ i = Len(ev))
        /\ StageCompleted(req[r], Last(ev))

\* A batch narration that uploaded audio and recorded an asset has succeeded.
C6_Witness ==
  \E r \in Slots :
    /\ Successful(req[r], "narration")
    /\ \E i, j \in 1..Len(req[r].ev) :
         req[r].ev[i][1] = "upload" /\ req[r].ev[j][1] = "row"

SecondMaterialization(r) ==
  /\ req[r].kind = "frames" /\ req[r].pc = "done" /\ req[r].inv > 0
  /\ req[r].prev # <<>>
  /\ req[r].prev[1].beats = {b.id : b \in BeatsOf(req[r].proj)}

NoFault(rec) == \A i \in 1..Len(rec.ev) : rec.ev[i][1] # "fault"

\* C8: when POST /api/projects/{id}/frames is invoked a second time in
\* succession on a project whose beats did not change, the second invocation
\* (unless the database fails under it) succeeds, returns the total the first
\* one returned and leaves that many frames.
C8_MaterializeTwiceSameTotal ==
  \A r \in Slots :
    (SecondMaterialization(r) /\ NoFault(req[r])) =>
      /\ req[r].resp.success
      /\ req[r].resp.total = <<req[r].prev[1].total>>
      /\ Cardinality(FramesOf(req[r].proj)) = req[r].prev[1].total

\* A second materialization in succession has returned 5, as the first did.
C8_Witness ==
  \E r \in Slots :
    /\ SecondMaterialization(r) /\ req[r].resp.success
    /\ req[r].prev[1].total = 5 /\ req[r].resp.total = <<5>>

RECURSIVE SumPlanned(_)
SumPlanned(S) ==
  IF S = {} THEN 0
  ELSE LET b == CHOOSE x \in S : TRUE
       IN (IF b.pf = <<>> THEN 0 ELSE b.pf[1]) + SumPlanned(S \ {b})

\* C9: after a successful materialization every beat with plannedFrames = n
\* has exactly the frames with indices 1..n, each with status NEW, a beat
\* without plannedFrames has none, the project has no other frame, and the
\* returned total is the sum of plannedFrames over the beats.
C9_FramesMatchPlannedFrames ==
  \A r \in Slots :
    Successful(req[r], "frames") =>
      LET p == req[r].proj IN
      /\ \A b \in BeatsOf(p) :
           LET fs == {f \in FramesOf(p) : f.beatId = b.id}
               n == IF b.pf = <<>> THEN 0 ELSE b.pf[1]
           IN /\ {f.index : f \in fs} = 1..n
              /\ Cardinality(fs) = n
              /\ \A f \in fs : f.status = "NEW"
      /\ \A f \in FramesOf(p) : \E b \in BeatsOf(p) : f.beatId = b.id
      /\ req[r].resp.total = <<SumPlanned(BeatsOf(p))>>

\* Beats with plannedFrames 2 and 3 were materialized: the total is 5.
C9_Witness ==
  \E r \in Slots :
    /\ Successful(req[r], "frames")
    /\ {b.pf : b \in BeatsOf(req[r].proj)} = {<<2>>, <<3>>}
    /\ req[r].resp.total = <<5>>
    /\ Cardinality(frames) = 5

\* C10: in every reachable state, frames requests overlapping or not, no two
\* Frame rows share the same (project id, beat id, index).
C10_FrameKeyUnique ==
  \A f, g \in frames :
    (f.proj = g.proj /\ f.beatId = g.beatId /\ f.index = g.index) => f = g

\* Two frames requests of one project overlapped, and while one is still
\* creating frames the other has been stopped by the unique key.
C10_Witness ==
  \E r, q \in Slots :
    /\ r # q /\ req[r].proj = req[q].proj
    /\ req[r].kind = "frames" /\ req[r].pc = "f_ins" /\ Len(req[r].ev) > 1
    /\ req[q].kind = "frames" /\ req[q].pc = "done"
    /\ Len(req[q].ev) > 1 /\ Last(req[q].ev) = <<"throw", "constraint">>

\* C11: in every reachable state no two Beat rows of a project share an index,
\* whatever plan the LLM returns (a plan that repeats an index included) and
\* however plan requests on the project overlap.
C11_BeatIndexUnique ==
  \A b, c \in beats : (b.proj = c.proj /\ b.index = c.index) => b = c

\* Two plan runs overlap on one project; one of them holds the beat of an index
\* and the insert of the other was rejected for that index with no failure of
\* the database.
C11_Witness ==
  \E r, q \in Slots :
    /\ r # q /\ req[r].kind = "plan" /\ req[q].kind = "plan"
    /\ req[r].proj = req[q].proj /\ req[r].inv > 0 /\ req[q].inv > 0
    /\ faults = 0 /\ inflight = {}
    /\ req[r].plan = "A" /\ req[q].plan = "D"
    /\ req[r].pc = "p_db_failed" /\ Last(req[r].ev) = <<"throw", "beat">>
    /\ req[q].pc \in {"p_beats_ins", "p_style_del"}
    /\ \E b \in beats : b.id[1] = req[q].inv

\* C12: the object-store key of every Asset row references an object that
\* exists in the store, also after runs in which an upload or a generation
\* failed.
C12_AssetKeyReferencesObject ==
  \A a \in assets : \E o \in store : o.key = a.key

\* A batch narration in which the audio of one dialogue failed has recorded
\* the audio asset of the other, next to the plan assets.
C12_Witness ==
  \E r \in Slots :
    /\ req[r].kind = "narration" /\ req[r].pc = "done"
    /\ \E i \in 1..Len(req[r].ev) :
         req[r].ev[i][1] \in {"tts_failed", "upload_failed"}
    /\ \E a \in AssetsOf(req[r].proj) : a.type = "AUDIO"
    /\ \E a \in AssetsOf(req[r].proj) : a.type = "DOC"

ActiveOf(p, filename) ==
  {a \in PlanAssets(AssetsOf(p), filename) : a.active}

\* C13: once the select requests made so far have finished, overlapping ones
\* included, at most one ProjectPlan.json asset and at most one
\* StyleBible.min.json asset of a project is marked active.
C13_AtMostOneActive ==
  (\A r \in Slots : req[r].kind = "select" => req[r].pc = "done") =>
     \A p \in ProjectIds :
       /\ Cardinality(ActiveOf(p, "ProjectPlan.json")) <= 1
       /\ Cardinality(ActiveOf(p, "StyleBible.min.json")) <= 1

\* Narration audio of the project is in the object store.
NarratedAudio(p) == \E o \in store : o.key[2] = p /\ o.key[3] = "audio"

\* The status disagrees with the artifacts: PLANNED while narration audio
\* exists, or NARRATED while every beat comes from a plan admitted after the
\* narration n.
StatusDisagrees(p, n) ==
  \/ projects[p].status = "PLANNED" /\ NarratedAudio(p)
  \/ projects[p].status = "NARRATED" /\ \A b \in BeatsOf(p) : b.id[1] > n

\* A narration that produced audio and a plan admitted after it have both
\* answered success on project p.
PlanAfterNarration(r, q, p) ==
  /\ Successful(req[r], "narration") /\ req[r].res # {}
  /\ Successful(req[q], "plan")
  /\ req[r].proj = p /\ req[q].proj = p
  /\ req[q].inv > req[r].inv

\* C14: a plan request and a narration request on one project can race: no
\* handler looks at what the other does, so whenever a narration that produced
\* audio and a plan admitted after it both succeed, the status that is left
\* disagrees with the artifacts, in the one way or the other, as the status
\* writes fall.
C14_StatusDisagreesAfterOverlap ==
  \A r, q \in Slots : \A p \in ProjectIds :
    PlanAfterNarration(r, q, p) => StatusDisagrees(p, req[r].inv)

\* The interleaving of the claim: the plan was admitted after the narration,
\* replaced the beats and wrote PLANNED, and the narration wrote NARRATED
\* after that.
C14_Witness ==
  \E r, q \in Slots : \E p \in ProjectIds :
    /\ PlanAfterNarration(r, q, p)
    /\ projects[p].status = "NARRATED"
    /\ BeatsOf(p) # {} /\ \A b \in BeatsOf(p) : b.id[1] = req[q].inv

\* A step of the invocation failed: an external call, an upload or a write of
\* the database threw, whether the handler let the error pass or caught it.
StepFailed(e) ==
  e[1] \in {"llm_failed", "tts_failed", "upload_failed", "throw", "swallowed"}

\* C15: no failure is silently swallowed: a response with success = true
\* implies that every step of that invocation of a stage handler succeeded.
C15_SuccessMeansEveryStepSucceeded ==
  \A r \in Slots :
    (req[r].kind \in {"plan", "narration"} /\ req[r].pc = "done"
       /\ req[r].resp.success)
      => \A i \in 1..Len(req[r].ev) : ~StepFailed(req[r].ev[i])

\* The step of the database save that threw in this invocation, if any.
DbThrows(rec) ==
  {i \in 1..Len(rec.ev) :
     rec.ev[i][1] = "throw" /\ rec.ev[i][2] \in {"beats", "beat", "style", "status"}}

\* The log entries of invocation inv, and the entries the invocation recorded.
LoggedBy(p, inv) == SelectSeq(progress[p], LAMBDA e : e.inv = inv)

RecordedBy(rec) == SelectSeq(rec.ev, LAMBDA e : e[1] = "progress")

\* C16: a plan run that fails at the database save after the plan files were
\* uploaded rolls nothing back and retries nothing: both uploaded objects
\* remain in the store, the progress entries the run wrote remain, and the
\* step that failed was attempted once, no write following it.
C16_FailedSaveKeepsArtifacts ==
  \A r \in Slots :
    LET rec == req[r] IN
    (rec.kind = "plan" /\ DbThrows(rec) # {}) =>
      /\ \A f \in {"ProjectPlan.json", "StyleBible.min.json"} :
           \E o \in store : /\ o.key = PlanKey(rec.proj, f)
                             /\ o.body.inv = rec.inv
      /\ Len(LoggedBy(rec.proj, rec.inv)) = Len(RecordedBy(rec))
      /\ \A i \in 1..Len(RecordedBy(rec)) :
           /\ LoggedBy(rec.proj, rec.inv)[i].phase = RecordedBy(rec)[i][2]
           /\ LoggedBy(rec.proj, rec.inv)[i].status = RecordedBy(rec)[i][3]
      /\ Cardinality(DbThrows(rec)) = 1
      /\ \A i \in DbThrows(rec) : \A j \in (i + 1)..Len(rec.ev) :
           rec.ev[j][1] \notin {"delete", "row", "status", "upload", "llm"}
      /\ rec.pc = "done" => (rec.resp.code = 500 /\ ~rec.resp.success)

\* A plan run has answered 500 after the insert of the style bible threw: the
\* beats were written, DATABASE_SAVE FAILED is its last entry.
C16_Witness ==
  \E r \in Slots :
    /\ req[r].kind = "plan" /\ req[r].pc = "done"
    /\ \E i \in DbThrows(req[r]) : req[r].ev[i] = <<"throw", "style">>
    /\ Last(req[r].ev) = <<"progress", "DATABASE_SAVE", "FAILED">>
    /\ \E b \in BeatsOf(req[r].proj) : b.id[1] = req[r].inv

\* The arguments and the result of the validation held by slot r.
ValidateArgs(r) ==
  [filename |-> req[r].arg[1], size |-> req[r].arg[2], assetType |-> req[r].arg[3],
   mimeType |-> req[r].arg[4], expectedPattern |-> req[r].arg[5]]

ValidateResult(r) == req[r].snap[1]

Validated(r) == req[r].kind = "validate" /\ At(r, "done")

SizeViolated(a) == a.size > FILE_SIZE_LIMITS(a.assetType)

ExtensionViolated(a) ==
  getFileExtension(a.filename) \notin ALLOWED_EXTENSIONS(a.assetType)

MimeViolated(a) ==
  a.mimeType = <<>> \/ a.mimeType[1] \notin ALLOWED_MIME_TYPES(a.assetType)

PatternViolated(a) ==
  a.expectedPattern # <<>> /\ ~PatternTest(a.expectedPattern[1], a.filename)

ErrorsOf(r) == {ValidateResult(r).errors[i] : i \in DOMAIN ValidateResult(r).errors}

\* C17: a file whose size is at most the ceiling of its type, whose extension
\* and MIME type are in the allow-lists of the type, and for which no filename
\* pattern is expected, is valid and has no errors.
C17_ValidInputsPass ==
  \A r \in Slots :
    Validated(r) =>
      LET a == ValidateArgs(r) IN
      (/\ ~SizeViolated(a)
       /\ ~ExtensionViolated(a)
       /\ ~MimeViolated(a)
       /\ a.expectedPattern = <<>>)
      => ValidateResult(r).isValid /\ ValidateResult(r).errors = <<>>

\* An audio file of exactly the ceiling, with an upper-case extension, passed.
C17_Witness ==
  \E r \in Slots :
    /\ Validated(r)
    /\ ValidateArgs(r).filename = <<"beat_001", "MP3">>
    /\ ValidateArgs(r).assetType = "AUDIO"
    /\ ValidateArgs(r).size = FILE_SIZE_LIMITS("AUDIO")
    /\ ValidateArgs(r).mimeType = <<"audio/mpeg">>
    /\ ValidateArgs(r).expectedPattern = <<>>
    /\ ValidateResult(r).isValid

\* C18: every check is evaluated and the errors accumulate: a file larger than
\* the ceiling is invalid with a non-empty error list, and each of the size,
\* extension, MIME and pattern checks that the input violates has its error in
\* the list, whichever other checks fail.
C18_ErrorsAccumulate ==
  \A r \in Slots :
    Validated(r) =>
      LET a == ValidateArgs(r) IN
      /\ SizeViolated(a) =>
            /\ ~ValidateResult(r).isValid
            /\ ValidateResult(r).errors # <<>>
            /\ <<"size", a.size>> \in ErrorsOf(r)
      /\ ExtensionViolated(a) =>
            <<"extension", getFileExtension(a.filename)>> \in ErrorsOf(r)
      /\ MimeViolated(a) =>
            \/ <<"mime_required">> \in ErrorsOf(r)
            \/ a.mimeType # <<>> /\ <<"mime", a.mimeType[1]>> \in ErrorsOf(r)
      /\ PatternViolated(a) =>
            <<"pattern", a.expectedPattern[1]>> \in ErrorsOf(r)

\* One input violated the four checks and the four errors were reported.
C18_Witness ==
  \E r \in Slots :
    /\ Validated(r)
    /\ SizeViolated(ValidateArgs(r))
    /\ ExtensionViolated(ValidateArgs(r))
    /\ MimeViolated(ValidateArgs(r))
    /\ PatternViolated(ValidateArgs(r))
    /\ Len(ValidateResult(r).errors) = 4

\* Slot r is a storage test whose download has returned a buffer.
Downloaded(r) ==
  /\ req[r].kind = "storage"
  /\ At(r, "st_delete") \/ (At(r, "done") /\ req[r].resp.data # NoData)

DownloadedBuffer(r) == req[r].snap[1]

\* No other request wrote or deleted the object between the upload and the
\* download of slot r.
Undisturbed(r) == req[r].res = {}

\* C19: a buffer uploaded with uploadFile and then downloaded with
\* downloadFile under the returned key, with no write or delete of that key in
\* between, comes back byte for byte.
C19_RoundTrip ==
  \A r \in Slots :
    (Downloaded(r) /\ Undisturbed(r)) => DownloadedBuffer(r) = req[r].arg[3]

\* A test got back its two different bytes although another test has written
\* another buffer under the same key since.
C19_Witness ==
  \E r, q \in Slots :
    /\ r # q
    /\ Downloaded(r) /\ Undisturbed(r)
    /\ req[r].arg[3] = <<0, 255>>
    /\ req[q].kind = "storage"
    /\ UploadedKey(req[q]) = UploadedKey(req[r])
    /\ req[q].arg[3] # req[r].arg[3]

ExpectedFolder(type) ==
  CASE type = "DOC" -> "docs"
    [] type = "AUDIO" -> "audio"
    [] type = "ALIGN" -> "align"
    [] type = "FRAME" -> "frames"
    [] type = "CUE" -> "cues"
    [] type = "VIDEO" -> "video"

\* C20: the key of a file is projects/{projectId}/{folder}/{filename} with the
\* folder docs, audio, align, frames, cues or video of its type, the key of a
\* plan file is projects/{projectId}/plan/{filename}, and two uploads with the
\* same project, type and filename have the same key.
C20_KeyDerivation ==
  /\ \A r \in Slots :
       /\ (req[r].kind = "storage" /\ UploadedKey(req[r]) # <<>>) =>
            UploadedKey(req[r])[1] =
              <<"projects", req[r].proj, ExpectedFolder(req[r].arg[1]), req[r].arg[2]>>
       /\ (req[r].kind = "planfile" /\ UploadedKey(req[r]) # <<>>) =>
            UploadedKey(req[r])[1] = <<"projects", req[r].proj, "plan", req[r].arg[1]>>
  /\ \A r, q \in Slots :
       (/\ req[r].kind = "storage" /\ req[q].kind = "storage"
        /\ UploadedKey(req[r]) # <<>> /\ UploadedKey(req[q]) # <<>>
        /\ req[r].proj = req[q].proj
        /\ req[r].arg[1] = req[q].arg[1]
        /\ req[r].arg[2] = req[q].arg[2])
       => UploadedKey(req[r]) = UploadedKey(req[q])
  /\ \A o \in store :
       \E r \in Slots : UploadedKey(req[r]) = <<o.key>>

\* A frame and a plan file of one project are in the store under their keys.
C20_Witness ==
  \E r, q \in Slots :
    /\ req[r].kind = "storage" /\ req[r].arg[1] = "FRAME"
    /\ req[q].kind = "planfile" /\ req[q].proj = req[r].proj
    /\ \E o \in store : <<o.key>> = UploadedKey(req[r])
    /\ \E o \in store : <<o.key>> = UploadedKey(req[q])

AdapterOps == {"uploadFile", "uploadPlanFile", "downloadFile", "deleteFile"}

AdapterKinds == {"storage", "planfile"}

CountEv(ev, e) == Cardinality({i \in DOMAIN ev : ev[i] = e})

Throws(ev) == {i \in DOMAIN ev : ev[i][1] = "throw"}

\* What a step leaves in the record of an adapter caller.
AdapterOnce(old, new) ==
  /\ \A op \in AdapterOps : CountEv(new.ev, <<"send", op>>) <= 1
  /\ Cardinality(Throws(new.ev)) <= 1
  /\ \A i \in Throws(new.ev) :
       /\ i = Len(new.ev) /\ i > 1
       /\ new.ev[i - 1] = <<"send", new.ev[i][2]>>
       /\ new.pc = "done" /\ new.resp.code = 500
  /\ (/\ Len(new.ev) > Len(old.ev)
      /\ Last(new.ev) \in {<<"throw", "uploadFile">>, <<"throw", "uploadPlanFile">>})
     => store' = store

\* C21: when the store reports an error, an adapter operation (uploadFile,
\* uploadPlanFile, downloadFile, deleteFile) has sent its command exactly once,
\* does not send it again, and throws one error to its caller; a failed upload
\* leaves the contents of the store as they were.
C21_AdapterFailsOnce ==
  [][\A r \in Slots :
       req'[r].kind \in AdapterKinds => AdapterOnce(req[r], req'[r])]_vars

\* An upload failed after one send, and the object another request had put
\* under the same key is still there with its own bytes.
C21_Witness ==
  \E r \in Slots :
    /\ req[r].kind = "storage"
    /\ req[r].ev = << <<"send", "uploadFile">>, <<"throw", "uploadFile">> >>
    /\ req[r].resp.code = 500
    /\ \E o \in store :
         /\ o.key = generateFilePath(req[r].proj, req[r].arg[1], req[r].arg[2])
         /\ o.body # req[r].arg[3]

\* Slot r holds the answer to the request that created project p.
Created(r, p) ==
  req[r].kind = "create" /\ At(r, "done") /\ req[r].resp.code = 200 /\ req[r].proj = p

\* No planning call has written anything for project p.
Unplanned(p) == progress[p] = <<>>

\* C22: the row of a project created with topic t has exactly the topic t, the
\* status PLANNED and the caller as owner, and the project has no beats, frames,
\* style bibles or assets; GET /api/projects/{id} by the owner before any
\* planning call answers 200 with that topic, PLANNED and zero beats.
C22_CreatedProjectIsPlannedAndEmpty ==
  [][\A p \in ProjectIds :
       /\ (\E r \in Slots : ~Created(r, p) /\ Created(r, p)') =>
            \E r \in Slots :
              /\ Created(r, p)'
              /\ projects'[p] = [exists |-> TRUE, owner |-> req'[r].user,
                                 topic |-> req'[r].arg[1], status |-> "PLANNED"]
              /\ BeatsOf(p)' = {} /\ FramesOf(p)' = {}
              /\ StylesOf(p)' = {} /\ AssetsOf(p)' = {}
       /\ \A r, q \in Slots :
            (/\ Created(r, p) /\ Unplanned(p)
             /\ req'[q] # req[q]
             /\ req'[q].kind = "get_project" /\ req'[q].proj = p
             /\ req'[q].user = req[r].user)
            => req'[q].resp =
                 Resp(200, TRUE, <<p, req[r].arg[1], "PLANNED", 0>>, <<>>)]_vars

\* The owner read the project created with the topic " tea " before planning.
C22_Witness ==
  \E r, q \in Slots, p \in ProjectIds :
    /\ Created(r, p) /\ Unplanned(p)
    /\ req[r].arg[1] = " tea "
    /\ req[q].kind = "get_project" /\ req[q].proj = p /\ req[q].user = req[r].user
    /\ req[q].resp.code = 200
    /\ req[q].resp.data = <<p, " tea ", "PLANNED", 0>>

PlanTestKinds == {"plan_test_get", "plan_test_post"}

\* C23: the plan test endpoint (GET and POST) answers, whatever the topic, with
\* a plan of exactly 6 beats indexed 1..6 and 8 dialogue turns indexed 0..7 and
\* a total duration of 180, reports beatCount 6 and dialogueCount 8, and no
\* step of it changes a stored row or object.
C23_MockPlanShape ==
  [][\A r \in Slots :
       (req'[r] # req[r] /\ req'[r].kind \in PlanTestKinds) =>
         /\ UNCHANGED <<db, store>>
         /\ req'[r].pc = "done" =>
              LET data == req'[r].resp.data IN
              /\ req'[r].resp.code = 200
              /\ [i \in DOMAIN data[3].beats |-> data[3].beats[i].index]
                   = <<1, 2, 3, 4, 5, 6>>
              /\ [i \in DOMAIN data[3].dialogueInputs |->
                    data[3].dialogueInputs[i].index] = <<0, 1, 2, 3, 4, 5, 6, 7>>
              /\ data[3].timelineSkeleton.totalDuration = 180
              /\ data[4].beatCount = 6 /\ data[4].dialogueCount = 8
              /\ data[4].totalDuration = 180]_vars

\* POST answered for one of its topics while a planned project is stored.
C23_Witness ==
  \E r \in Slots :
    /\ req[r].kind = "plan_test_post" /\ At(r, "done")
    /\ req[r].resp.data[1] = "Understanding cryptocurrency"
    /\ req[r].resp.data[4].beatCount = 6
    /\ \E p \in ProjectIds : BeatsOf(p) # {} /\ store # {}

\* Slot r holds the answer of a health request.
HealthAnswered(r) == req[r].kind = "health" /\ At(r, "done")

\* The three connectivity checks of the request of slot r all succeeded.
AllReachable(r) == req[r].snap[1] /\ req[r].snap[2] /\ req[r].snap[3]

\* C24: GET /api/health reports healthy with ok = true and 200 only when the
\* database, object-store and LLM checks all succeeded, and degraded with
\* ok = false and 503 whenever one of the three failed.
C24_HealthAggregatesThreeChecks ==
  \A r \in Slots :
    HealthAnswered(r) =>
      LET resp == req[r].resp IN
      /\ (resp.code = 200 \/ resp.success \/ resp.data[1].status = "healthy")
           => AllReachable(r)
      /\ ~AllReachable(r) =>
           (resp.code = 503 /\ ~resp.success /\ resp.data[1].status = "degraded")

\* The narration request of slot r reads the project row in this step.
ReadsProject(r) == req[r].kind = "narration" /\ At(r, "n_own") /\ req'[r] # req[r]

\* C25: a narration request for a project of its caller whose status is not
\* PLANNED is answered 400 and changes neither the status, nor the assets,
\* nor the progress log; a narration request that succeeds leaves the status
\* NARRATED, so the next ones are refused until a plan run sets PLANNED again.
C25_NarrationOnlyWhenPlanned ==
  [][\A r \in Slots :
       /\ (/\ ReadsProject(r)
           /\ FindProject(req[r].proj, req[r].user)
           /\ projects[req[r].proj].status # "PLANNED")
          => /\ req'[r].pc = "done" /\ req'[r].resp.code = 400
             /\ UNCHANGED <<projects, assets, progress>>
       /\ (/\ req'[r] # req[r]
           /\ Successful(req'[r], "narration"))
          => projects'[req[r].proj].status = "NARRATED"]_vars

\* A narration request of the owner was refused for a narrated project that
\* has beats and narration audio.
C25_Witness ==
  \E r \in Slots :
    /\ req[r].kind = "narration" /\ At(r, "done") /\ req[r].resp.code = 400
    /\ WellFormed(req[r])
    /\ FindProject(req[r].proj, req[r].user)
    /\ projects[req[r].proj].status = "NARRATED"
    /\ BeatsOf(req[r].proj) # {}
    /\ \E a \in AssetsOf(req[r].proj) : a.kind = "narration"

\* The progress entries of a plan run that succeeds, in the order of the
\* handler's trackPlanningProgress calls.
PlanEntries ==
  << <<"PLANNING_START", "IN_PROGRESS">>,
     <<"LLM_GENERATION", "IN_PROGRESS">>,
     <<"LLM_GENERATION", "COMPLETED">>,
     <<"STORAGE_UPLOAD", "IN_PROGRESS">>,
     <<"STORAGE_UPLOAD", "COMPLETED">>,
     <<"DATABASE_SAVE", "IN_PROGRESS">>,
     <<"DATABASE_SAVE", "COMPLETED">>,
     <<"PLANNING_COMPLETE", "COMPLETED">> >>

\* The entries the invocation of rec left in the log, as <<phase, status>>.
EntriesOf(rec) ==
  LET log == LoggedBy(rec.proj, rec.inv)
  IN  [i \in 1..Len(log) |-> <<log[i].phase, log[i].status>>]

\* A plan request that was answered after it wrote its first progress entry.
PlanAnswered(rec) ==
  rec.kind = "plan" /\ rec.pc = "done" /\ rec.inv > 0 /\ EntriesOf(rec) # <<>>

\* seq is a prefix of PlanEntries that ends with a phase in progress, followed
\* by the FAILED entry of that phase.
EndsWithFailedPhase(seq) ==
  \E k \in 1..Len(PlanEntries) :
    /\ PlanEntries[k][2] = "IN_PROGRESS"
    /\ seq = Append(SubSeq(PlanEntries, 1, k), <<PlanEntries[k][1], "FAILED">>)

\* The success half of C26: a plan run that succeeded wrote exactly
\* PlanEntries, in that order.
SuccessfulPlanOrder ==
  \A r \in Slots :
    Successful(req[r], "plan") => EntriesOf(req[r]) = PlanEntries

\* C26: a successful plan run wrote the eight entries of PlanEntries in that
\* order; a failed plan run wrote a prefix of them ending with one FAILED
\* entry for the phase that was in progress, and no entry of a later phase.
C26_PlanEntriesInOrder ==
  \A r \in Slots :
    PlanAnswered(req[r]) =>
      IF req[r].resp.success
      THEN EntriesOf(req[r]) = PlanEntries
      ELSE EndsWithFailedPhase(EntriesOf(req[r]))

\* The failed half of C26 for the runs in which no progress write threw.
FailedPlanOrder ==
  \A r \in Slots :
    (/\ PlanAnswered(req[r]) /\ ~req[r].resp.success
     /\ \A i \in 1..Len(req[r].ev) :
          ~(req[r].ev[i][1] = "throw" /\ Len(req[r].ev[i]) = 3))
      => EndsWithFailedPhase(EntriesOf(req[r]))

\* The rows createProjectBeats of this invocation inserts when it succeeds.
NewBeats(rec) ==
  {BeatRow(rec.proj, rec.inv, rec.plan, pos) : pos \in 1..Len(PlanBeats(rec.plan))}

\* createProjectBeats of the answered plan run threw after its deleteMany.
BeatsFailedAfterDelete(rec) ==
  /\ rec.kind = "plan" /\ rec.pc = "done"
  /\ \E i, j \in 1..Len(rec.ev) :
       i < j /\ rec.ev[i] = <<"delete", "beats">> /\ rec.ev[j] = <<"throw", "beat">>

\* The project had beats when the run began its database save: an earlier plan
\* run completed, and no run between the two started a database save.
HadBeats(rec) ==
  LET log == progress[rec.proj] IN
  \E i \in 1..Len(log) :
    /\ log[i].phase = "PLANNING_COMPLETE" /\ log[i].inv < rec.inv
    /\ \A k \in 1..Len(log) :
         log[k].phase = "DATABASE_SAVE" => (log[k].inv <= log[i].inv \/ log[k].inv >= rec.inv)

\* HadBeats says what its name says: a run about to delete the beats of a
\* project that HadBeats finds beats there.
HadBeatsIsSound ==
  \A r \in Slots :
    (req[r].kind = "plan" /\ At(r, "p_beats_del") /\ HadBeats(req[r]))
      => BeatsOf(req[r].proj) # {}

\* C27: replacing beats is all-or-nothing: once a createProjectBeats that
\* failed after its delete has ended, the beats of a project that had beats
\* are the complete previous set or the complete new set, never zero beats or
\* part of the new ones.
C27_BeatsAllOrNothing ==
  \A r \in Slots :
    (BeatsFailedAfterDelete(req[r]) /\ HadBeats(req[r]) /\ Quiet)
      => LET now == BeatsOf(req[r].proj) IN
         \/ now = NewBeats(req[r])
         \/ now # {} /\ \A b \in now : b.id[1] < req[r].inv

\* The invocation of rec wrote a terminal entry: PLANNING_COMPLETE COMPLETED,
\* or the FAILED entry of one of the phases that fail.
WroteTerminal(rec) ==
  \E i \in 1..Len(EntriesOf(rec)) :
    \/ EntriesOf(rec)[i] = <<"PLANNING_COMPLETE", "COMPLETED">>
    \/ /\ EntriesOf(rec)[i][2] = "FAILED"
       /\ EntriesOf(rec)[i][1] \in {"LLM_GENERATION", "STORAGE_UPLOAD", "DATABASE_SAVE"}

\* A write of the progress log threw in this invocation.
ProgressThrows(rec) ==
  \E i \in 1..Len(rec.ev) : rec.ev[i][1] = "throw" /\ Len(rec.ev[i]) = 3

\* C28: a plan run that wrote PLANNING_START IN_PROGRESS has written a
\* terminal entry, PLANNING_COMPLETE COMPLETED or the FAILED entry of the
\* failing phase, by the time it returns its response, whichever step failed.
C28_TerminalEntryBeforeResponse ==
  \A r \in Slots :
    (/\ req[r].kind = "plan" /\ req[r].pc = "done" /\ req[r].inv > 0
     /\ \E i \in 1..Len(EntriesOf(req[r])) :
          EntriesOf(req[r])[i] = <<"PLANNING_START", "IN_PROGRESS">>)
      => WroteTerminal(req[r])

\* The same for the runs in which the LLM call, an upload or a database write
\* failed and every write of the progress log succeeded.
TerminalUnlessProgressThrows ==
  \A r \in Slots :
    (req[r].kind = "plan" /\ req[r].pc = "done" /\ req[r].inv > 0
       /\ ~ProgressThrows(req[r]))
      => WroteTerminal(req[r])

\* The narration AUDIO asset of the dialogue of beat b.
HasNarrationAsset(p, b) ==
  \E a \in AssetsOf(p) :
    a.type = "AUDIO" /\ a.kind = "narration" /\ a.dlg = <<b.index>>

\* No request is under way.
NoRequestUnderWay == Quiet /\ \A r \in Slots : req[r].pc \in {"idle", "done"}

\* C29: with no concurrent request, a project whose status is NARRATED has a
\* narration AUDIO asset with the matching dialogueIndex for every beat that
\* has on-screen text.
C29_NarratedHasAudioForEveryBeat ==
  \A p \in ProjectIds :
    (NoRequestUnderWay /\ projects[p].exists /\ projects[p].status = "NARRATED")
      => \A b \in BeatsOf(p) : b.words > 0 => HasNarrationAsset(p, b)

\* A batch narration in which no step failed does leave the asset of every
\* dialogue when it sets NARRATED.
CleanBatchHasAudioForEveryBeat ==
  \A r \in Slots :
    (/\ Successful(req[r], "narration") /\ ~IsSingle(req[r])
     /\ \A i \in 1..Len(req[r].ev) : ~StepFailed(req[r].ev[i]))
      => \A b \in BeatsOf(req[r].proj) :
           b.words > 0 => HasNarrationAsset(req[r].proj, b)

\* The object stored under the key of asset row a has the size a records.
SizeRecorded(a, objects) ==
  \E o \in objects : o.key = a.key /\ ByteLength(o.body) = a.bytes

\* C30: every Asset row a stage handler creates records the size in bytes of
\* the object stored under its key, for the DOC assets of the plan files and
\* for the narration AUDIO assets.
C30_AssetBytesAreObjectSize ==
  [][\A a \in assets' \ assets : SizeRecorded(a, store')]_vars

\* The half of C30 about the plan files: the DOC rows of ProjectPlan.json and
\* StyleBible.min.json record the size of the uploaded object.
PlanAssetBytesAreObjectSize ==
  [][\A a \in assets' \ assets : a.type = "DOC" => SizeRecorded(a, store')]_vars

====
